---- MODULE Spec2Model ----
(***************************************************************************)
(* Tool-invocation bridge of mcp-azuredevops-bridge.                       *)
(*                                                                         *)
(* Every tool handler is a short sequential program: it reads the          *)
(* dynamically typed argument bag, validates what it validates, issues one *)
(* or more blocking calls to the remote work-tracking service, and returns *)
(* one result.  A handler is modelled as one action per remote round trip  *)
(* (the local computation before a call belongs to the step that reaches   *)
(* the call), so that invocations served concurrently interleave exactly   *)
(* at their remote calls.                                                  *)
(*                                                                         *)
(* Text that the handlers parse or format themselves (tag strings, id      *)
(* lists, attachment URLs) is a sequence of one-character strings, and     *)
(* Split / Join / TrimSpace / Contains / Atoi are computed on it.  Text    *)
(* that is only carried (titles, field names, error text) is a TLA+        *)
(* string.                                                                 *)
(***************************************************************************)
EXTENDS Integers, Sequences, FiniteSets, TLC

VARIABLES
    env,      \* the process environment: org, pat, project
    config,   \* the global AzureDevOpsConfig
    phase,    \* how far main has come: start, validated, clients, serving, or fatal
    items,    \* remote service: work item id -> its revisions [hasTags, tags, relations],
              \* oldest first; the last one is the work item as it is now
    pc,       \* slot -> position of the invocation served in that slot
    tool,     \* slot -> name of the invoked tool
    args,     \* slot -> argument bag of the invocation
    loc,      \* slot -> local variables of the running handler
    result,   \* slot -> the CallToolResult returned (or the panic)
    wire      \* every remote call issued so far, in the order the remote served them

vars == <<env, config, phase, items, pc, tool, args, loc, result, wire>>

\* what only main writes
boot == <<env, config, phase>>

----------------------------------------------------------------------------
(* Strings as sequences of characters. *)

Range(s) == {s[k] : k \in 1..Len(s)}

\* s[from..to], empty when from > to
Sub(s, from, to) == [k \in 1..(IF to >= from THEN to - from + 1 ELSE 0) |-> s[from + k - 1]]

HasPrefixAt(s, sep, at) ==
    /\ at + Len(sep) - 1 <= Len(s)
    /\ \A k \in 1..Len(sep) : s[at + k - 1] = sep[k]

\* strings.Index + 1: position of the first occurrence of sep in s, 0 when absent
IndexOf(s, sep) ==
    LET hits == {at \in 1..Len(s) : HasPrefixAt(s, sep, at)}
    IN  IF hits = {} THEN 0 ELSE CHOOSE at \in hits : \A o \in hits : at <= o

\* strings.Contains: the empty substring is contained in every string
Contains(s, sub) == Len(sub) = 0 \/ IndexOf(s, sub) > 0

RECURSIVE Split(_, _)
\* strings.Split for a non-empty separator: never returns an empty list
Split(s, sep) ==
    LET at == IndexOf(s, sep)
    IN  IF at = 0 THEN <<s>>
        ELSE <<Sub(s, 1, at - 1)>> \o Split(Sub(s, at + Len(sep), Len(s)), sep)

RECURSIVE Join(_, _)
\* strings.Join
Join(list, sep) ==
    IF Len(list) = 0 THEN <<>>
    ELSE IF Len(list) = 1 THEN list[1]
    ELSE list[1] \o sep \o Join(Tail(list), sep)

\* strings.TrimSpace
TrimSpace(s) ==
    LET solid == {k \in 1..Len(s) : s[k] # " "}
    IN  IF solid = {} THEN <<>>
        ELSE LET lo == CHOOSE k \in solid : \A o \in solid : k <= o
                 hi == CHOOSE k \in solid : \A o \in solid : k >= o
             IN  Sub(s, lo, hi)

Digits == <<"0", "1", "2", "3", "4", "5", "6", "7", "8", "9">>

DigitValue(c) == (CHOOSE d \in 1..10 : Digits[d] = c) - 1

IsDigit(c) == \E d \in 1..10 : Digits[d] = c

\* strconv.Atoi succeeds: an optional sign followed by at least one digit
AtoiOk(s) ==
    LET body == IF Len(s) > 0 /\ s[1] \in {"+", "-"} THEN Tail(s) ELSE s
    IN  Len(body) > 0 /\ \A k \in 1..Len(body) : IsDigit(body[k])

RECURSIVE DecimalValue(_)
DecimalValue(s) ==
    IF Len(s) = 0 THEN 0
    ELSE 10 * DecimalValue(Sub(s, 1, Len(s) - 1)) + DigitValue(s[Len(s)])

\* strconv.Atoi's value on a string for which it succeeds
Atoi(s) ==
    IF s[1] = "-" THEN 0 - DecimalValue(Tail(s))
    ELSE IF s[1] = "+" THEN DecimalValue(Tail(s))
    ELSE DecimalValue(s)

\* every ordering of a finite set: the orders a Go map range can produce
Orderings(S) ==
    {s \in [1..Cardinality(S) -> S] : \A a, b \in 1..Cardinality(S) : a # b => s[a] # s[b]}

\* the list with the element at position at (1-based) removed
RemoveAt(list, at) == Sub(list, 1, at - 1) \o Sub(list, at + 1, Len(list))

----------------------------------------------------------------------------
(* The process-wide configuration and the slots that serve invocations. *)

Slots == {1, 2}

\* the longest batch and the largest query result the invocations are drawn from
MaxBatch == 3

MaxMatches == 22

WorkItemIds == {1, 2}

RECURSIVE Itoa(_)
\* fmt's %d for a non-negative integer
Itoa(n) == IF n < 10 THEN <<Digits[n + 1]>> ELSE Itoa(n \div 10) \o <<Digits[(n % 10) + 1]>>

\* fmt.Sprintf("%s/_apis/wit/workItems/%d", config.OrganizationURL, targetID)
WorkItemUrl(id) == <<"w", "/">> \o Itoa(id)

\* a variant that reads a key outside the map as the related link type
RelationTypeMapDefaultsToRelated(relationType) ==
    CASE relationType = "parent"  -> "System.LinkTypes.Hierarchy-Reverse"
      [] relationType = "child"   -> "System.LinkTypes.Hierarchy-Forward"
      [] OTHER -> "System.LinkTypes.Related"

\* relationTypeMap; a key outside the map reads as the empty string
RelationTypeMap(relationType) ==
    CASE relationType = "parent"  -> "System.LinkTypes.Hierarchy-Reverse"
      [] relationType = "child"   -> "System.LinkTypes.Hierarchy-Forward"
      [] relationType = "related" -> "System.LinkTypes.Related"
      [] OTHER -> ""

Relation(rel, url, name) == [rel |-> rel, url |-> url, name |-> name]

Attachment(url, name) == Relation("AttachedFile", url, name)

----------------------------------------------------------------------------
(* JSON Patch documents. *)

FieldPath(field) == [root |-> "fields", name |-> field, index |-> 0]

\* "/relations/-": the append sentinel
RelationAppendPath == [root |-> "relations", name |-> "-", index |-> 0]

\* fmt.Sprintf("/relations/%d", i)
RelationIndexPath(i) == [root |-> "relations", name |-> "", index |-> i]

PatchOp(op, path, value) == [op |-> op, path |-> path, value |-> value]

\* the Value of an operation that carries none
NoValue == "<none>"

----------------------------------------------------------------------------
(* The remote service, as far as the handlers read back what they write:  *)
(* per work item the System.Tags field and the ordered relation list.     *)
(* A patch is applied atomically; a patch one of whose operations cannot  *)
(* be applied changes nothing and is rejected.                            *)

ApplyOp(item, o) ==
    IF o.path.root = "relations"
    THEN IF o.op = "add"
         THEN [ok |-> TRUE, item |-> [item EXCEPT !.relations = Append(@, o.value)]]
         ELSE IF o.path.index >= 0 /\ o.path.index < Len(item.relations)
              THEN [ok |-> TRUE,
                    item |-> [item EXCEPT !.relations = RemoveAt(@, o.path.index + 1)]]
              ELSE [ok |-> FALSE, item |-> item]
    ELSE IF o.path.name = "System.Tags"
         THEN [ok |-> TRUE, item |-> [item EXCEPT !.hasTags = TRUE, !.tags = o.value]]
         ELSE [ok |-> TRUE, item |-> item]

RECURSIVE ApplyPatch(_, _)
ApplyPatch(item, doc) ==
    IF Len(doc) = 0 THEN [ok |-> TRUE, item |-> item]
    ELSE LET first == ApplyOp(item, doc[1])
         IN  IF ~first.ok THEN [ok |-> FALSE, item |-> item]
             ELSE LET rest == ApplyPatch(first.item, Tail(doc))
                  IN  IF rest.ok THEN rest ELSE [ok |-> FALSE, item |-> item]

\* The Relations pointer of a fetched work item: nil when the item has none.
\* Only a request that asks for $expand=Relations is sure to get the list.
RelationsReturned(item, expand) ==
    IF Len(item.relations) = 0 THEN {[fetched |-> TRUE, isNil |-> TRUE, list |-> <<>>]}
    ELSE IF expand THEN {[fetched |-> TRUE, isNil |-> FALSE, list |-> item.relations]}
    ELSE {[fetched |-> TRUE, isNil |-> FALSE, list |-> item.relations],
          [fetched |-> TRUE, isNil |-> TRUE, list |-> <<>>]}

\* the work item as it is now
Current(id) == items[id][Len(items[id])]

\* one served remote call: who issued it, what it asked, whether it succeeded, and
\* for a call on one work item the revision the service held when it served it
Call(i, api, id, body, ok) ==
    [slot |-> i, api |-> api, id |-> id, body |-> body, ok |-> ok, fault |-> ~ok,
     rev |-> IF id \in WorkItemIds THEN Len(items[id]) ELSE 0, status |-> 0]

----------------------------------------------------------------------------
(* Results and handler-local state. *)

\* one formatted line: the format, its numbers and its strings
Line(msg, id, arg) == [msg |-> msg, id |-> id, n |-> 0, arg |-> arg]

NoResult == [kind |-> "none", lines |-> <<>>]

\* mcp.NewToolResultText
ToolResultText(lines) == [kind |-> "ok", lines |-> lines]

\* mcp.NewToolResultError
ToolResultError(msg) == [kind |-> "error", lines |-> <<Line(msg, 0, <<>>)>>]

\* a failed type assertion: the handler panics and returns nothing
Panicked == [kind |-> "panic", lines |-> <<>>]

\* no work item returned yet
NoResponse == [id |-> 0, hasTitle |-> FALSE, title |-> ""]

\* nothing fetched yet
NotFetched == [fetched |-> FALSE, isNil |-> TRUE, list |-> <<>>]

EmptyLoc ==
    [doc |-> <<>>, read |-> <<>>, got |-> NotFetched, bytes |-> <<>>, ids |-> <<>>, refs |-> <<>>,
     k |-> 0, lines |-> <<>>, resp |-> NoResponse, wikis |-> NotFetched, wikiId |-> ""]

\* the bag holds the named argument with the dynamic type the handler asserts
Holds(a, name) == name \notin a.absent /\ name \notin a.mistyped

\* single-value type assertions on all of names succeed
Asserted(a, names) == \A n \in names : Holds(a, n)

Finish(i, res) ==
    /\ pc' = [pc EXCEPT ![i] = "done"]
    /\ result' = [result EXCEPT ![i] = res]

----------------------------------------------------------------------------
(* Argument bags.  A bag is the record of the values the caller sent plus  *)
(* the names of the declared arguments that are absent from the bag or     *)
(* hold a value of another dynamic type than the handler asserts.          *)

\* base with one of its declared arguments absent, or of the wrong dynamic type
Defective(base, names) ==
    {[base EXCEPT !.absent = {n}] : n \in names} \cup {[base EXCEPT !.mistyped = {n}] : n \in names}

Titles == {"Login fails", "Crash"}

Priorities == {"", "2"}

CreateWorkItemBase ==
    [type |-> "Bug", title |-> "Login fails", description |-> "NPE on null token",
     priority |-> "2", absent |-> {}, mistyped |-> {}]

CreateWorkItemBags ==
    {[CreateWorkItemBase EXCEPT !.title = t, !.priority = p] : t \in Titles, p \in Priorities}
    \cup Defective(CreateWorkItemBase, {"type", "title", "description", "priority"})

UpdateWorkItemBase ==
    [id |-> 1, field |-> "State", value |-> "Closed", absent |-> {}, mistyped |-> {}]

UpdateWorkItemBags ==
    {[UpdateWorkItemBase EXCEPT !.id = w, !.field = f] :
        w \in WorkItemIds, f \in {"State", "System.Title", ""}}
    \cup Defective(UpdateWorkItemBase, {"id", "field", "value"})

TagArguments ==
    {<<"a">>, <<"b">>, <<"c", ",", " ", "b">>, <<>>, <<"a", ";", " ", "b">>}

ManageWorkItemTagsBase ==
    [id |-> 1, operation |-> "add", tags |-> <<"b">>, absent |-> {}, mistyped |-> {}]

ManageWorkItemTagsBags ==
    {[ManageWorkItemTagsBase EXCEPT !.id = w, !.operation = o, !.tags = t] :
        w \in WorkItemIds, o \in {"add", "remove", "replace"}, t \in TagArguments}
    \cup Defective(ManageWorkItemTagsBase, {"id", "operation", "tags"})

ManageWorkItemRelationsBase ==
    [source_id |-> 1, target_id |-> 2, relation_type |-> "related", operation |-> "remove",
     absent |-> {}, mistyped |-> {}]

ManageWorkItemRelationsBags ==
    {[ManageWorkItemRelationsBase EXCEPT !.source_id = w, !.target_id = t,
                                         !.relation_type = r, !.operation = o] :
        w \in WorkItemIds, t \in {2, 3}, r \in {"parent", "child", "related", "blocks"},
        o \in {"add", "remove", "delete"}}
    \cup Defective(ManageWorkItemRelationsBase,
                   {"source_id", "target_id", "relation_type", "operation"})

RemoveWorkItemAttachmentBase ==
    [id |-> 1, attachment_id |-> <<"f", "1">>, absent |-> {}, mistyped |-> {}]

RemoveWorkItemAttachmentBags ==
    {[RemoveWorkItemAttachmentBase EXCEPT !.id = w, !.attachment_id = a] :
        w \in WorkItemIds, a \in {<<"f", "1">>, <<"1", "2">>, <<"z">>, <<>>}}
    \cup Defective(RemoveWorkItemAttachmentBase, {"id", "attachment_id"})

\* "aGk=" is "hi"; the others lack padding, hold a character outside the
\* alphabet, are empty, or are wrapped with a line feed
Base64Contents ==
    {<<"a", "G", "k", "=">>, <<"a", "G", "k">>, <<"a", "$", "k", "=">>, <<>>,
     <<"a", "G", "k", "=", "\n">>, <<"a", "=", "=", "=">>, <<"a", "Q", "=", "=">>}

AddWorkItemAttachmentBase ==
    [id |-> 1, file_name |-> "log.txt", content |-> <<"a", "G", "k", "=">>,
     absent |-> {}, mistyped |-> {}]

AddWorkItemAttachmentBags ==
    {[AddWorkItemAttachmentBase EXCEPT !.id = w, !.content = c] :
        w \in WorkItemIds, c \in Base64Contents}
    \cup Defective(AddWorkItemAttachmentBase, {"id", "file_name", "content"})

IdLists ==
    {<<"1">>, <<"1", ",", "2">>, <<"2", ",", " ", "1">>, <<"1", ",", "x">>, <<"x", ",", "1">>,
     <<>>, <<"1", ",">>, <<"+", "1">>, <<"1", "2">>, <<"1", ".", "0">>}

GetWorkItemDetailsBase == [ids |-> <<"1">>, absent |-> {}, mistyped |-> {}]

GetWorkItemDetailsBags ==
    {[GetWorkItemDetailsBase EXCEPT !.ids = l] : l \in IdLists}
    \cup Defective(GetWorkItemDetailsBase, {"ids"})

TemplateIds ==
    {[form |-> f, uuid |-> "6f9619ff-8b86-d011-b42d-00c04fc964ff"] :
        f \in {"canonical", "braced", "malformed"}}

FieldValueTexts ==
    {[json |-> "object", fields |-> {}],
     [json |-> "object", fields |-> {<<"System.Title", "Override">>}],
     [json |-> "object", fields |-> {<<"System.Title", "Override">>, <<"Custom.Team", "X">>}],
     [json |-> "null", fields |-> {}],
     [json |-> "array", fields |-> {}],
     [json |-> "string", fields |-> {}],
     [json |-> "malformed", fields |-> {}]}

CreateFromTemplateBase ==
    [template_id |-> [form |-> "canonical", uuid |-> "6f9619ff-8b86-d011-b42d-00c04fc964ff"],
     field_values |-> [json |-> "object", fields |-> {}], absent |-> {}, mistyped |-> {}]

CreateFromTemplateBags ==
    {[CreateFromTemplateBase EXCEPT !.template_id = t, !.field_values = v] :
        t \in TemplateIds, v \in FieldValueTexts}
    \cup Defective(CreateFromTemplateBase, {"template_id", "field_values"})

QueryWorkItemsBase ==
    [query |-> "SELECT [System.Id] FROM WorkItems", absent |-> {}, mistyped |-> {}]

QueryWorkItemsBags == {QueryWorkItemsBase} \cup Defective(QueryWorkItemsBase, {"query"})

UpdateChoices ==
    {[id |-> 1, field |-> "Title", value |-> "v"], [id |-> 2, field |-> "State", value |-> "v"],
     [id |-> 1, field |-> "Severity", value |-> "v"], [id |-> 2, field |-> "title", value |-> "v"]}

UpdateLists == UNION {[1..n -> UpdateChoices] : n \in 0..MaxBatch}

BatchUpdateWorkItemsBase ==
    [updates |-> [json |-> "array", items |-> <<>>], absent |-> {}, mistyped |-> {}]

BatchUpdateWorkItemsBags ==
    {[BatchUpdateWorkItemsBase EXCEPT !.updates = [json |-> "array", items |-> l]] : l \in UpdateLists}
    \cup {[BatchUpdateWorkItemsBase EXCEPT !.updates = [json |-> j, items |-> <<>>]] :
            j \in {"null", "object", "malformed"}}
    \cup Defective(BatchUpdateWorkItemsBase, {"updates"})

CreateChoices ==
    {[type |-> "Bug", title |-> "Login fails", description |-> "d", priority |-> ""],
     [type |-> "Task", title |-> "Crash", description |-> "", priority |-> "2"]}

CreateLists == UNION {[1..n -> CreateChoices] : n \in 0..MaxBatch}

BatchCreateWorkItemsBase ==
    [items |-> [json |-> "array", items |-> <<>>], absent |-> {}, mistyped |-> {}]

BatchCreateWorkItemsBags ==
    {[BatchCreateWorkItemsBase EXCEPT !.items = [json |-> "array", items |-> l]] : l \in CreateLists}
    \cup {[BatchCreateWorkItemsBase EXCEPT !.items = [json |-> j, items |-> <<>>]] :
            j \in {"null", "object", "malformed"}}
    \cup Defective(BatchCreateWorkItemsBase, {"items"})

Request(name, bags) == {[tool |-> name, args |-> a] : a \in bags}

----------------------------------------------------------------------------
(* The dispatcher hands a request to its handler. *)

Invoke(i, requests) ==
    /\ phase = "serving"
    /\ pc[i] = "idle"
    /\ \E r \in requests :
          /\ tool' = [tool EXCEPT ![i] = r.tool]
          /\ args' = [args EXCEPT ![i] = r.args]
    /\ pc' = [pc EXCEPT ![i] = "invoked"]
    /\ UNCHANGED <<boot, items, loc, result, wire>>

At(i, name, label) == tool[i] = name /\ pc[i] = label

\* the handler moves on to its next remote call
Goto(i, label) == pc' = [pc EXCEPT ![i] = label] /\ UNCHANGED result

----------------------------------------------------------------------------
(* create_work_item *)

\* the remote service's answer to a successful create: the new id and the
\* title as the service stored it
\* System.Title of the response may be missing
CreateResponses(title) ==
    {[id |-> 42, hasTitle |-> TRUE, title |-> t] : t \in {title, "Login"}}
    \cup {[id |-> 42, hasTitle |-> FALSE, title |-> ""]}

\* extractedTitle: the response's System.Title if it is a string, else ""
ExtractedTitle(resp) == IF resp.hasTitle THEN resp.title ELSE ""

\* a variant that echoes the title of the request
CreatedLineEchoesInput(a, resp) == Line("Created work item #%d: %s", resp.id, <<a.title>>)

CreatedLine(a, resp) == Line("Created work item #%d: %s", resp.id, <<ExtractedTitle(resp)>>)

\* a variant that treats an empty priority as no priority, as the batch create does
CreateDocumentSkipsEmptyPriority(title, description, hasPriority, priority) ==
    <<PatchOp("add", FieldPath("System.Title"), title),
      PatchOp("add", FieldPath("System.Description"), description)>>
    \o (IF priority # ""
        THEN <<PatchOp("add", FieldPath("Microsoft.VSTS.Common.Priority"), priority)>>
        ELSE <<>>)

CreateDocument(title, description, hasPriority, priority) ==
    <<PatchOp("add", FieldPath("System.Title"), title),
      PatchOp("add", FieldPath("System.Description"), description)>>
    \o (IF hasPriority
        THEN <<PatchOp("add", FieldPath("Microsoft.VSTS.Common.Priority"), priority)>>
        ELSE <<>>)

handleCreateWorkItem(i) ==
    \/ /\ At(i, "create_work_item", "invoked")
       /\ IF ~Asserted(args[i], {"type", "title", "description"})
          THEN Finish(i, Panicked) /\ UNCHANGED loc
          ELSE /\ loc' = [loc EXCEPT ![i].doc =
                            CreateDocument(args[i].title, args[i].description,
                                           Holds(args[i], "priority"), args[i].priority)]
               /\ Goto(i, "CreateWorkItem")
       /\ UNCHANGED <<boot, items, tool, args, wire>>
    \/ /\ At(i, "create_work_item", "CreateWorkItem")
       /\ \E fault \in BOOLEAN, resp \in CreateResponses(args[i].title) :
             /\ wire' = Append(wire, Call(i, "CreateWorkItem", 0, loc[i].doc, ~fault))
             /\ IF fault
                THEN Finish(i, ToolResultError("Failed to create work item")) /\ UNCHANGED loc
                ELSE /\ loc' = [loc EXCEPT ![i].resp = resp]
                     /\ Finish(i, ToolResultText(<<CreatedLine(args[i], resp)>>))
       /\ UNCHANGED <<boot, items, tool, args>>

----------------------------------------------------------------------------
(* update_work_item *)

\* a variant that maps the alias State as the batch update does
UpdateDocumentMapsAlias(field, value) ==
    <<PatchOp("replace", FieldPath(IF field = "State" THEN "System.State" ELSE field), value)>>

UpdateDocument(field, value) == <<PatchOp("replace", FieldPath(field), value)>>

\* the work item the service returns for an accepted update of work item id
UpdateResponse(id) == [id |-> id, hasTitle |-> FALSE, title |-> ""]

\* workItemClient.UpdateWorkItem as the remote serves it for slot i: the patch is
\* applied to the work item unless the call fails or the service rejects it
UpdateServed(i, id, doc, fault) ==
    LET applied == ApplyPatch(Current(id), doc)
        ok == ~fault /\ applied.ok
    IN  /\ wire' = Append(wire, [Call(i, "UpdateWorkItem", id, doc, ok) EXCEPT !.fault = fault])
        /\ items' = IF ok THEN [items EXCEPT ![id] = Append(@, applied.item)] ELSE items

UpdateOk(id, doc, fault) == ~fault /\ ApplyPatch(Current(id), doc).ok

handleUpdateWorkItem(i) ==
    \/ /\ At(i, "update_work_item", "invoked")
       /\ IF ~Asserted(args[i], {"id", "field", "value"})
          THEN Finish(i, Panicked) /\ UNCHANGED loc
          ELSE /\ loc' = [loc EXCEPT ![i].doc = UpdateDocument(args[i].field, args[i].value)]
               /\ Goto(i, "UpdateWorkItem")
       /\ UNCHANGED <<boot, items, tool, args, wire>>
    \/ /\ At(i, "update_work_item", "UpdateWorkItem")
       /\ \E fault \in BOOLEAN :
             /\ UpdateServed(i, args[i].id, loc[i].doc, fault)
             /\ IF UpdateOk(args[i].id, loc[i].doc, fault)
                THEN /\ loc' = [loc EXCEPT ![i].resp = UpdateResponse(args[i].id)]
                     /\ Finish(i, ToolResultText(
                            <<Line("Updated work item #%d", UpdateResponse(args[i].id).id, <<>>)>>))
                ELSE Finish(i, ToolResultError("Failed to update work item")) /\ UNCHANGED loc
       /\ UNCHANGED <<boot, tool, args>>

----------------------------------------------------------------------------
(* manage_work_item_tags *)

\* workItemClient.GetWorkItem as the remote serves it for slot i
GetServed(i, id, expand, fault) ==
    /\ wire' = Append(wire, Call(i, "GetWorkItem", id, expand, ~fault))
    /\ UNCHANGED items

\* currentTags: the System.Tags string split at "; ", nil when absent or empty
CurrentTags(item) ==
    IF item.hasTags /\ item.tags # <<>> THEN Split(item.tags, <<";", " ">>) ELSE <<>>

\* the keys of a tagMap filled from list
TagKeys(list) == {TrimSpace(t) : t \in Range(list)}

\* the tags kept by the remove case, in their stored order and untrimmed
KeptTags(currentTags, tags) ==
    SelectSeq(currentTags, LAMBDA t : TrimSpace(t) \notin TagKeys(tags))

\* a variant whose add case writes the given tags only
NewTagsDropsCurrent(operation, currentTags, tags) ==
    CASE operation = "add"    -> Orderings(TagKeys(tags))
      [] operation = "remove" -> {KeptTags(currentTags, tags)}
      [] OTHER -> {<<>>}

\* a variant whose add case appends the given tags to the current ones unchecked
NewTagsAppends(operation, currentTags, tags) ==
    CASE operation = "add"    -> {currentTags \o [k \in 1..Len(tags) |-> TrimSpace(tags[k])]}
      [] operation = "remove" -> {KeptTags(currentTags, tags)}
      [] OTHER -> {<<>>}

\* the values newTags can take: the add case ranges over a map, in any order
NewTags(operation, currentTags, tags) ==
    CASE operation = "add"    -> Orderings(TagKeys(currentTags) \cup TagKeys(tags))
      [] operation = "remove" -> {KeptTags(currentTags, tags)}
      [] OTHER -> {<<>>}

TagsDocument(newTags) ==
    <<PatchOp("replace", FieldPath("System.Tags"), Join(newTags, <<";", " ">>))>>

handleManageWorkItemTags(i) ==
    \/ /\ At(i, "manage_work_item_tags", "invoked")
       /\ IF ~Asserted(args[i], {"id", "operation", "tags"})
          THEN Finish(i, Panicked)
          ELSE Goto(i, "GetWorkItem")
       /\ UNCHANGED <<boot, items, tool, args, loc, wire>>
    \/ /\ At(i, "manage_work_item_tags", "GetWorkItem")
       /\ \E fault \in BOOLEAN :
             /\ GetServed(i, args[i].id, FALSE, fault)
             /\ IF fault
                THEN Finish(i, ToolResultError("Failed to get work item")) /\ UNCHANGED loc
                ELSE \E newTags \in NewTags(args[i].operation, CurrentTags(Current(args[i].id)),
                                            Split(args[i].tags, <<",">>)) :
                        /\ loc' = [loc EXCEPT ![i].doc = TagsDocument(newTags),
                                              ![i].read = CurrentTags(Current(args[i].id))]
                        /\ Goto(i, "UpdateWorkItem")
       /\ UNCHANGED <<boot, tool, args>>
    \/ /\ At(i, "manage_work_item_tags", "UpdateWorkItem")
       /\ \E fault \in BOOLEAN :
             /\ UpdateServed(i, args[i].id, loc[i].doc, fault)
             /\ IF UpdateOk(args[i].id, loc[i].doc, fault)
                THEN Finish(i, ToolResultText(<<Line("Successfully %sd tags for work item #%d", args[i].id,
                                                      <<args[i].operation>>)>>))
                ELSE Finish(i, ToolResultError("Failed to update tags"))
       /\ UNCHANGED <<boot, tool, args, loc>>

----------------------------------------------------------------------------
(* manage_work_item_relations *)

RelationAddDocument(azureRelationType, targetID) ==
    <<PatchOp("add", RelationAppendPath,
              Relation(azureRelationType, WorkItemUrl(targetID), "Added via MCP"))>>

\* the positions (0-based) of the relations of the given type and target
RelationMatches(relations, azureRelationType, targetID) ==
    {k \in 0..(Len(relations) - 1) :
        relations[k + 1].rel = azureRelationType /\ relations[k + 1].url = WorkItemUrl(targetID)}

\* a variant whose scan runs on to the last match
LastOf(matches) == CHOOSE k \in matches : \A o \in matches : k >= o

\* the scan stops at the first match
FirstOf(matches) == CHOOSE k \in matches : \A o \in matches : k <= o

\* a variant whose index starts at 0 instead of a not-found sentinel
RelationRemoveDocumentDefaultsToFirst(relations, azureRelationType, targetID) ==
    LET matches == RelationMatches(relations, azureRelationType, targetID)
    IN  <<PatchOp("remove", RelationIndexPath(IF matches = {} THEN 0 ELSE FirstOf(matches)),
                  NoValue)>>

\* a variant that counts positions from 1
RelationRemoveDocumentOneBased(relations, azureRelationType, targetID) ==
    LET matches == RelationMatches(relations, azureRelationType, targetID)
    IN  IF matches = {} THEN <<>>
        ELSE <<PatchOp("remove", RelationIndexPath(FirstOf(matches) + 1), NoValue)>>

\* ops after the scan: empty when nothing matched
RelationRemoveDocument(relations, azureRelationType, targetID) ==
    LET matches == RelationMatches(relations, azureRelationType, targetID)
    IN  IF matches = {} THEN <<>>
        ELSE <<PatchOp("remove", RelationIndexPath(FirstOf(matches)), NoValue)>>

\* a variant that patches the work item the relation points to
RelationsPatchedIdIsTarget(a) == a.target_id

\* updateArgs.Id: the work item the relations patch is addressed to
RelationsPatchedId(a) == a.source_id

handleManageWorkItemRelations(i) ==
    \/ /\ At(i, "manage_work_item_relations", "invoked")
       /\ IF ~Asserted(args[i], {"source_id", "target_id"})
          THEN Finish(i, Panicked) /\ UNCHANGED loc
          ELSE IF ~Holds(args[i], "relation_type")
          THEN Finish(i, ToolResultError("Invalid relation_type")) /\ UNCHANGED loc
          ELSE IF ~Holds(args[i], "operation")
          THEN Finish(i, Panicked) /\ UNCHANGED loc
          ELSE IF args[i].operation = "add"
          THEN /\ loc' = [loc EXCEPT ![i].doc =
                            RelationAddDocument(RelationTypeMap(args[i].relation_type),
                                                args[i].target_id)]
               /\ Goto(i, "UpdateWorkItem")
          ELSE Goto(i, "GetWorkItem") /\ UNCHANGED loc
       /\ UNCHANGED <<boot, items, tool, args, wire>>
    \/ /\ At(i, "manage_work_item_relations", "GetWorkItem")
       /\ \E fault \in BOOLEAN, got \in RelationsReturned(Current(args[i].source_id), FALSE) :
             /\ GetServed(i, args[i].source_id, FALSE, fault)
             /\ IF fault
                THEN Finish(i, ToolResultError("Failed to get work item")) /\ UNCHANGED loc
                ELSE IF got.isNil
                THEN /\ Finish(i, ToolResultError("Work item has no relations"))
                     /\ loc' = [loc EXCEPT ![i].got = got]
                ELSE LET ops == RelationRemoveDocument(got.list,
                                    RelationTypeMap(args[i].relation_type), args[i].target_id)
                     IN  /\ loc' = [loc EXCEPT ![i].doc = ops, ![i].got = got]
                         /\ IF Len(ops) = 0
                            THEN Finish(i, ToolResultError("Specified relation not found"))
                            ELSE Goto(i, "UpdateWorkItem")
       /\ UNCHANGED <<boot, tool, args>>
    \/ /\ At(i, "manage_work_item_relations", "UpdateWorkItem")
       /\ \E fault \in BOOLEAN :
             /\ UpdateServed(i, RelationsPatchedId(args[i]), loc[i].doc, fault)
             /\ IF UpdateOk(RelationsPatchedId(args[i]), loc[i].doc, fault)
                THEN Finish(i, ToolResultText(<<Line("Successfully %sd %s relationship", 0,
                                                      <<args[i].operation, args[i].relation_type>>)>>))
                ELSE Finish(i, ToolResultError("Failed to update work item relations"))
       /\ UNCHANGED <<boot, tool, args, loc>>

----------------------------------------------------------------------------
(* remove_work_item_attachment *)

\* a variant that takes the id for the whole URL
AttachmentMatchesWholeUrl(relations, attachmentID) ==
    {k \in 0..(Len(relations) - 1) :
        relations[k + 1].rel = "AttachedFile" /\ relations[k + 1].url = attachmentID}

\* the positions (0-based) of the AttachedFile relations whose URL contains the id
AttachmentMatches(relations, attachmentID) ==
    {k \in 0..(Len(relations) - 1) :
        relations[k + 1].rel = "AttachedFile" /\ Contains(relations[k + 1].url, attachmentID)}

\* relationIndex after the scan: -1 when nothing matched
AttachmentIndex(relations, attachmentID) ==
    LET matches == AttachmentMatches(relations, attachmentID)
    IN  IF matches = {} THEN -1 ELSE FirstOf(matches)

AttachmentRemoveDocument(relationIndex) ==
    <<PatchOp("remove", RelationIndexPath(relationIndex), NoValue)>>

handleRemoveWorkItemAttachment(i) ==
    \/ /\ At(i, "remove_work_item_attachment", "invoked")
       /\ IF ~Asserted(args[i], {"id", "attachment_id"})
          THEN Finish(i, Panicked)
          ELSE Goto(i, "GetWorkItem")
       /\ UNCHANGED <<boot, items, tool, args, loc, wire>>
    \/ /\ At(i, "remove_work_item_attachment", "GetWorkItem")
       /\ \E fault \in BOOLEAN, got \in RelationsReturned(Current(args[i].id), TRUE) :
             /\ GetServed(i, args[i].id, TRUE, fault)
             /\ IF fault
                THEN Finish(i, ToolResultError("Failed to get work item")) /\ UNCHANGED loc
                ELSE IF got.isNil
                THEN /\ Finish(i, ToolResultError("Work item has no attachments"))
                     /\ loc' = [loc EXCEPT ![i].got = got]
                ELSE LET relationIndex == AttachmentIndex(got.list, args[i].attachment_id)
                     IN  /\ loc' = [loc EXCEPT ![i].got = got,
                                               ![i].doc = IF relationIndex = -1 THEN <<>>
                                                          ELSE AttachmentRemoveDocument(relationIndex)]
                         /\ IF relationIndex = -1
                            THEN Finish(i, ToolResultError("Attachment not found"))
                            ELSE Goto(i, "UpdateWorkItem")
       /\ UNCHANGED <<boot, tool, args>>
    \/ /\ At(i, "remove_work_item_attachment", "UpdateWorkItem")
       /\ \E fault \in BOOLEAN :
             /\ UpdateServed(i, args[i].id, loc[i].doc, fault)
             /\ IF UpdateOk(args[i].id, loc[i].doc, fault)
                THEN Finish(i, ToolResultText(<<Line("Removed attachment from work item #%d",
                                                      args[i].id, <<>>)>>))
                ELSE Finish(i, ToolResultError("Failed to remove attachment"))
       /\ UNCHANGED <<boot, tool, args, loc>>

----------------------------------------------------------------------------
(* add_work_item_attachment *)

Base64Alphabet ==
    <<"A", "B", "C", "D", "E", "F", "G", "H", "I", "J", "K", "L", "M", "N", "O", "P",
      "Q", "R", "S", "T", "U", "V", "W", "X", "Y", "Z", "a", "b", "c", "d", "e", "f",
      "g", "h", "i", "j", "k", "l", "m", "n", "o", "p", "q", "r", "s", "t", "u", "v",
      "w", "x", "y", "z", "0", "1", "2", "3", "4", "5", "6", "7", "8", "9", "+", "/">>

IsBase64Char(c) == \E d \in 1..Len(Base64Alphabet) : Base64Alphabet[d] = c

Sextet(c) == (CHOOSE d \in 1..Len(Base64Alphabet) : Base64Alphabet[d] = c) - 1

\* the decoder skips carriage returns and line feeds
Base64Payload(content) == SelectSeq(content, LAMBDA c : c \notin {"\n", "\r"})

\* the number of trailing padding characters of the last quantum
Base64Padding(p) ==
    IF Len(p) >= 2 /\ p[Len(p)] = "=" /\ p[Len(p) - 1] = "=" THEN 2
    ELSE IF Len(p) >= 1 /\ p[Len(p)] = "=" THEN 1
    ELSE 0

\* base64.StdEncoding.DecodeString succeeds: whole quanta of four characters
\* of the alphabet, padded with "=" at the very end only
Base64Ok(content) ==
    LET p == Base64Payload(content)
        data == Len(p) - Base64Padding(p)
    IN  /\ Len(p) % 4 = 0
        /\ \A k \in 1..data : IsBase64Char(p[k])
        /\ Len(p) > 0 => data >= Len(p) - 2 /\ data >= 2

RECURSIVE Base64Bytes(_)
\* the bytes of a payload for which decoding succeeds
Base64Bytes(p) ==
    IF Len(p) = 0 THEN <<>>
    ELSE LET a == Sextet(p[1])
             b == Sextet(p[2])
             c == IF p[3] = "=" THEN 0 ELSE Sextet(p[3])
             d == IF p[4] = "=" THEN 0 ELSE Sextet(p[4])
             quantum == <<a * 4 + (b \div 16), (b % 16) * 16 + (c \div 4), (c % 4) * 64 + d>>
             count == IF p[3] = "=" THEN 1 ELSE IF p[4] = "=" THEN 2 ELSE 3
         IN  Sub(quantum, 1, count) \o Base64Bytes(Sub(p, 5, Len(p)))

\* the URLs the service can assign to an uploaded attachment
AttachmentUrls == {<<"f", "7">>, <<"f", "8">>}

\* a variant that links one fixed URL, whatever the upload returned
AttachmentAddDocumentFixedUrl(url, fileName) ==
    <<PatchOp("add", RelationAppendPath, Attachment(<<"f", "7">>, fileName))>>

AttachmentAddDocument(url, fileName) ==
    <<PatchOp("add", RelationAppendPath, Attachment(url, fileName))>>

handleAddWorkItemAttachment(i) ==
    \/ /\ At(i, "add_work_item_attachment", "invoked")
       /\ IF ~Asserted(args[i], {"id", "file_name", "content"})
          THEN Finish(i, Panicked) /\ UNCHANGED loc
          ELSE IF ~Base64Ok(args[i].content)
          THEN Finish(i, ToolResultError("Invalid base64 content")) /\ UNCHANGED loc
          ELSE /\ loc' = [loc EXCEPT ![i].bytes = Base64Bytes(Base64Payload(args[i].content))]
               /\ Goto(i, "CreateAttachment")
       /\ UNCHANGED <<boot, items, tool, args, wire>>
    \/ /\ At(i, "add_work_item_attachment", "CreateAttachment")
       /\ \E fault \in BOOLEAN, url \in AttachmentUrls :
             /\ wire' = Append(wire, Call(i, "CreateAttachment", 0,
                                          [fileName |-> args[i].file_name,
                                           stream |-> loc[i].bytes,
                                           url |-> IF fault THEN <<>> ELSE url], ~fault))
             /\ IF fault
                THEN Finish(i, ToolResultError("Failed to upload attachment")) /\ UNCHANGED loc
                ELSE /\ loc' = [loc EXCEPT ![i].doc = AttachmentAddDocument(url, args[i].file_name)]
                     /\ Goto(i, "UpdateWorkItem")
       /\ UNCHANGED <<boot, items, tool, args>>
    \/ /\ At(i, "add_work_item_attachment", "UpdateWorkItem")
       /\ \E fault \in BOOLEAN :
             /\ UpdateServed(i, args[i].id, loc[i].doc, fault)
             /\ IF UpdateOk(args[i].id, loc[i].doc, fault)
                THEN Finish(i, ToolResultText(<<Line("Added attachment '%s' to work item #%d",
                                                      args[i].id, <<args[i].file_name>>)>>))
                ELSE Finish(i, ToolResultError("Failed to add attachment to work item"))
       /\ UNCHANGED <<boot, tool, args, loc>>

----------------------------------------------------------------------------
(* get_work_item_details *)

\* the elements of the comma-separated list that strconv.Atoi rejects, by position
BadIdPositions(idsStr) ==
    LET idStrs == Split(idsStr, <<",">>)
    IN  {k \in 1..Len(idStrs) : ~AtoiOk(TrimSpace(idStrs[k]))}

\* ids after the loop, when every element parsed
ParsedIds(idsStr) ==
    LET idStrs == Split(idsStr, <<",">>)
    IN  [k \in 1..Len(idStrs) |-> Atoi(TrimSpace(idStrs[k]))]

\* workItemClient.GetWorkItems: the service answers for existing work items only
GetWorkItemsOk(ids, fault) == ~fault /\ \A k \in 1..Len(ids) : ids[k] \in WorkItemIds

handleGetWorkItemDetails(i) ==
    \/ /\ At(i, "get_work_item_details", "invoked")
       /\ IF ~Asserted(args[i], {"ids"})
          THEN Finish(i, Panicked) /\ UNCHANGED loc
          ELSE IF BadIdPositions(args[i].ids) # {}
          THEN Finish(i, ToolResultError("Invalid ID format")) /\ UNCHANGED loc
          ELSE /\ loc' = [loc EXCEPT ![i].ids = ParsedIds(args[i].ids)]
               /\ Goto(i, "GetWorkItems")
       /\ UNCHANGED <<boot, items, tool, args, wire>>
    \/ /\ At(i, "get_work_item_details", "GetWorkItems")
       /\ \E fault \in BOOLEAN :
             /\ wire' = Append(wire, Call(i, "GetWorkItems", 0, loc[i].ids,
                                          GetWorkItemsOk(loc[i].ids, fault)))
             /\ IF GetWorkItemsOk(loc[i].ids, fault)
                THEN Finish(i, ToolResultText(
                        [k \in 1..Len(loc[i].ids) |->
                            Line("ID: %d Title: %s State: %s Description: %s", loc[i].ids[k], <<>>)]))
                ELSE Finish(i, ToolResultError("Failed to get work items"))
       /\ UNCHANGED <<boot, items, tool, args, loc>>

----------------------------------------------------------------------------
(* create_from_template *)

\* json.Unmarshal into a map[string]interface{} succeeds: a JSON object fills
\* the map, JSON null leaves it nil, any other text is an error
UnmarshalMapOk(text) == text.json \in {"object", "null"}

UnmarshalMap(text) == IF text.json = "object" THEN text.fields ELSE {}

\* uuid.Parse succeeds: the canonical form, or one of the other forms it reads
UuidParseOk(templateID) == templateID.form \in {"canonical", "urn", "braced", "hex"}

\* the default field mapping of the template the service returns
TemplateFields == {<<"System.Title", "From template">>, <<"System.State", "New">>}

FieldOps(pairs) == [k \in 1..Len(pairs) |-> PatchOp("add", FieldPath(pairs[k][1]), pairs[k][2])]

\* a variant that appends the template's fields after the overrides
TemplateDocumentsDefaultsLast(templateFields, fieldValues) ==
    {FieldOps(v) \o FieldOps(t) : t \in Orderings(templateFields), v \in Orderings(fieldValues)}

\* operations: the template's fields in map order, then the overrides in map order
TemplateDocuments(templateFields, fieldValues) ==
    {FieldOps(t) \o FieldOps(v) : t \in Orderings(templateFields), v \in Orderings(fieldValues)}

handleCreateFromTemplate(i) ==
    \/ /\ At(i, "create_from_template", "invoked")
       /\ IF ~Asserted(args[i], {"template_id", "field_values"})
          THEN Finish(i, Panicked)
          ELSE IF ~UnmarshalMapOk(args[i].field_values)
          THEN Finish(i, ToolResultError("Invalid field values JSON"))
          ELSE IF ~UuidParseOk(args[i].template_id)
          THEN Finish(i, ToolResultError("Invalid template ID format"))
          ELSE Goto(i, "GetTemplate")
       /\ UNCHANGED <<boot, items, tool, args, loc, wire>>
    \/ /\ At(i, "create_from_template", "GetTemplate")
       /\ \E fault \in BOOLEAN :
             /\ wire' = Append(wire, Call(i, "GetTemplate", 0, args[i].template_id.uuid, ~fault))
             /\ IF fault
                THEN Finish(i, ToolResultError("Failed to get template")) /\ UNCHANGED loc
                ELSE \E doc \in TemplateDocuments(TemplateFields,
                                                   UnmarshalMap(args[i].field_values)) :
                        /\ loc' = [loc EXCEPT ![i].doc = doc]
                        /\ Goto(i, "CreateWorkItem")
       /\ UNCHANGED <<boot, items, tool, args>>
    \/ /\ At(i, "create_from_template", "CreateWorkItem")
       /\ \E fault \in BOOLEAN :
             /\ wire' = Append(wire, Call(i, "CreateWorkItem", 0, loc[i].doc, ~fault))
             /\ IF fault
                THEN Finish(i, ToolResultError("Failed to create work item from template"))
                ELSE Finish(i, ToolResultText(<<Line("Created work item #%d from template", 42, <<>>)>>))
       /\ UNCHANGED <<boot, items, tool, args, loc>>

----------------------------------------------------------------------------
(* query_work_items *)

MaxDetailsToFetch == 20

\* the work item references of a query result with total matches, in result order
QueryRefs(total, descending) ==
    [k \in 1..total |-> IF descending THEN 100 + total - k ELSE 100 + k]

\* queryResult.WorkItems as the service can answer: nil, or the matching references
QueryResponses ==
    {[isNil |-> TRUE, refs |-> <<>>]}
    \cup {[isNil |-> FALSE, refs |-> QueryRefs(total, d)] : total \in 0..MaxMatches, d \in BOOLEAN}

\* a variant without the cap
DetailIdsUncapped(refs) == refs

\* ids: the first count references, count capped at maxDetailsToFetch
DetailIds(refs) ==
    LET count == IF Len(refs) > MaxDetailsToFetch THEN MaxDetailsToFetch ELSE Len(refs)
    IN  Sub(refs, 1, count)

QueryHeader(total, count) ==
    <<[msg |-> "Found %d work items. Showing details for the first %d:", id |-> total,
       n |-> count, arg |-> <<>>],
      Line("", 0, <<>>)>>

DetailLines(ids) == [k \in 1..Len(ids) |-> Line("ID: %d - [%s] %s (%s)", ids[k], <<>>)]

\* a variant that lists only the ids whose details were asked for
BareIdLinesOfAsked(refs) ==
    [k \in 1..Len(DetailIds(refs)) |-> Line("ID: %d", DetailIds(refs)[k], <<>>)]

\* the fallback: the bare id of every reference of the query result
BareIdLines(refs) == [k \in 1..Len(refs) |-> Line("ID: %d", refs[k], <<>>)]

handleQueryWorkItems(i) ==
    \/ /\ At(i, "query_work_items", "invoked")
       /\ IF ~Asserted(args[i], {"query"})
          THEN Finish(i, Panicked)
          ELSE Goto(i, "QueryByWiql")
       /\ UNCHANGED <<boot, items, tool, args, loc, wire>>
    \/ /\ At(i, "query_work_items", "QueryByWiql")
       /\ \E fault \in BOOLEAN, resp \in QueryResponses :
             /\ wire' = Append(wire, Call(i, "QueryByWiql", 0, resp.refs, ~fault))
             /\ IF fault
                THEN Finish(i, ToolResultError("Failed to query work items")) /\ UNCHANGED loc
                ELSE IF resp.isNil \/ Len(resp.refs) = 0
                THEN /\ Finish(i, ToolResultText(
                                    <<Line("No work items found matching the query.", 0, <<>>)>>))
                     /\ UNCHANGED loc
                ELSE /\ loc' = [loc EXCEPT ![i].refs = resp.refs,
                                           ![i].ids = DetailIds(resp.refs),
                                           ![i].lines = QueryHeader(Len(resp.refs),
                                                                   Len(DetailIds(resp.refs)))]
                     /\ Goto(i, "GetWorkItems")
       /\ UNCHANGED <<boot, items, tool, args>>
    \/ /\ At(i, "query_work_items", "GetWorkItems")
       /\ \E answer \in {"items", "error", "nil", "empty"} :
             /\ wire' = Append(wire, Call(i, "GetWorkItems", 0, loc[i].ids, answer # "error"))
             /\ loc' = [loc EXCEPT ![i].got =
                            [fetched |-> answer # "error", isNil |-> answer \in {"error", "nil"},
                             list |-> IF answer = "items" THEN loc[i].ids ELSE <<>>]]
             /\ Finish(i, ToolResultText(loc[i].lines \o
                              (IF answer = "items" THEN DetailLines(loc[i].ids)
                               ELSE BareIdLines(loc[i].refs))))
       /\ UNCHANGED <<boot, items, tool, args>>

----------------------------------------------------------------------------
(* batch_update_work_items *)

\* json.Unmarshal into a slice succeeds: a JSON array fills it, JSON null leaves it nil
UnmarshalSliceOk(text) == text.json \in {"array", "null"}

UnmarshalSlice(text) == IF text.json = "array" THEN text.items ELSE <<>>

FieldAliases == {"Title", "Description", "State", "Priority"}

\* fieldMap
FieldMap(alias) ==
    CASE alias = "Title"       -> "System.Title"
      [] alias = "Description" -> "System.Description"
      [] alias = "State"       -> "System.State"
      [] alias = "Priority"    -> "Microsoft.VSTS.Common.Priority"
      [] OTHER -> ""

InvalidFieldLine(update) == Line("Invalid field for #%d: %s", update.id, <<update.field>>)

\* a variant in which the first invalid field ends the batch
RejectInvalidEndsBatch(updates, k, lines) ==
    IF k > Len(updates) \/ updates[k].field \in FieldAliases
    THEN [k |-> k, lines |-> lines]
    ELSE [k |-> Len(updates) + 1, lines |-> Append(lines, InvalidFieldLine(updates[k]))]

RECURSIVE RejectInvalid(_, _, _)
\* the loop from update k on, up to the next update that reaches the service:
\* an update whose field is not a key of fieldMap gets its line and is skipped
RejectInvalid(updates, k, lines) ==
    IF k > Len(updates) \/ updates[k].field \in FieldAliases
    THEN [k |-> k, lines |-> lines]
    ELSE RejectInvalid(updates, k + 1, Append(lines, InvalidFieldLine(updates[k])))

BatchUpdateDocument(update) ==
    <<PatchOp("replace", FieldPath(FieldMap(update.field)), update.value)>>

\* the loop runs on from update k: to the next remote call, or to the end
BatchContinue(i, updates, k, lines) ==
    LET next == RejectInvalid(updates, k, lines)
    IN  /\ loc' = [loc EXCEPT ![i].k = next.k, ![i].lines = next.lines]
        /\ IF next.k > Len(updates)
           THEN Finish(i, ToolResultText(next.lines))
           ELSE Goto(i, "UpdateWorkItem")

handleBatchUpdateWorkItems(i) ==
    \/ /\ At(i, "batch_update_work_items", "invoked")
       /\ IF ~Asserted(args[i], {"updates"})
          THEN Finish(i, Panicked) /\ UNCHANGED loc
          ELSE IF ~UnmarshalSliceOk(args[i].updates)
          THEN Finish(i, ToolResultError("Invalid JSON format")) /\ UNCHANGED loc
          ELSE BatchContinue(i, UnmarshalSlice(args[i].updates), 1, <<>>)
       /\ UNCHANGED <<boot, items, tool, args, wire>>
    \/ /\ At(i, "batch_update_work_items", "UpdateWorkItem")
       /\ \E fault \in BOOLEAN :
             LET updates == UnmarshalSlice(args[i].updates)
                 update == updates[loc[i].k]
                 doc == BatchUpdateDocument(update)
             IN  /\ UpdateServed(i, update.id, doc, fault)
                 /\ BatchContinue(i, updates, loc[i].k + 1,
                        Append(loc[i].lines,
                               IF UpdateOk(update.id, doc, fault)
                               THEN Line("Updated work item #%d", update.id, <<>>)
                               ELSE Line("Failed to update #%d: %v", update.id, <<>>)))
       /\ UNCHANGED <<boot, tool, args>>

----------------------------------------------------------------------------
(* batch_create_work_items *)

BatchCreateDocument(item) ==
    <<PatchOp("add", FieldPath("System.Title"), item.title),
      PatchOp("add", FieldPath("System.Description"), item.description)>>
    \o (IF item.priority # ""
        THEN <<PatchOp("add", FieldPath("Microsoft.VSTS.Common.Priority"), item.priority)>>
        ELSE <<>>)

\* a variant in which a failed create ends the batch
AfterCreateStopsOnFailure(list, k, failed) == IF failed THEN Len(list) + 1 ELSE k + 1

\* the item the loop turns to after item k, whether its create failed or not
AfterCreate(list, k, failed) == k + 1

\* the loop stands before item k: at its remote call, or past the end
BatchCreateContinue(i, list, k, lines) ==
    /\ loc' = [loc EXCEPT ![i].k = k, ![i].lines = lines]
    /\ IF k > Len(list)
       THEN Finish(i, ToolResultText(lines))
       ELSE Goto(i, "CreateWorkItem")

handleBatchCreateWorkItems(i) ==
    \/ /\ At(i, "batch_create_work_items", "invoked")
       /\ IF ~Asserted(args[i], {"items"})
          THEN Finish(i, Panicked) /\ UNCHANGED loc
          ELSE IF ~UnmarshalSliceOk(args[i].items)
          THEN Finish(i, ToolResultError("Invalid JSON format")) /\ UNCHANGED loc
          ELSE BatchCreateContinue(i, UnmarshalSlice(args[i].items), 1, <<>>)
       /\ UNCHANGED <<boot, items, tool, args, wire>>
    \/ /\ At(i, "batch_create_work_items", "CreateWorkItem")
       /\ \E fault \in BOOLEAN :
             LET list == UnmarshalSlice(args[i].items)
                 item == list[loc[i].k]
             IN  \E resp \in CreateResponses(item.title) :
                    /\ wire' = Append(wire, Call(i, "CreateWorkItem", 0, BatchCreateDocument(item), ~fault))
                    /\ BatchCreateContinue(i, list, AfterCreate(list, loc[i].k, fault),
                           Append(loc[i].lines,
                                  IF fault
                                  THEN Line("Failed to create '%s': %v", 0, <<item.title>>)
                                  ELSE Line("Created work item #%d: %s", resp.id, <<item.title>>)))
       /\ UNCHANGED <<boot, items, tool, args>>

----------------------------------------------------------------------------
(* The REST calls the handlers make over net/http. *)

UpperCase == <<"A", "B", "C", "D", "E", "F", "G", "H", "I", "J", "K", "L", "M",
               "N", "O", "P", "Q", "R", "S", "T", "U", "V", "W", "X", "Y", "Z">>

LowerCase == <<"a", "b", "c", "d", "e", "f", "g", "h", "i", "j", "k", "l", "m",
               "n", "o", "p", "q", "r", "s", "t", "u", "v", "w", "x", "y", "z">>

\* strings.ToLower
ToLower(s) ==
    [k \in 1..Len(s) |->
        IF \E d \in 1..26 : UpperCase[d] = s[k]
        THEN LowerCase[CHOOSE d \in 1..26 : UpperCase[d] = s[k]]
        ELSE s[k]]

\* strings.Replace(s, " ", "", -1)
RemoveSpaces(s) == SelectSeq(s, LAMBDA c : c # " ")

\* strings.HasPrefix
HasPrefix(s, prefix) == HasPrefixAt(s, prefix, 1)

\* the statuses a response can carry
HttpStatuses == {200, 203, 404}

\* what client.Do and io.ReadAll can yield when the service holds one of
\* bodies: no response at all, a body that cannot be read, a body that does not
\* parse, or a status with a body; none is the zero value of the parsed body
HttpResponses(bodies, none) ==
    {[err |-> TRUE, status |-> 0, readErr |-> FALSE, json |-> FALSE, value |-> none]}
    \cup {[err |-> FALSE, status |-> 200, readErr |-> TRUE, json |-> FALSE, value |-> none]}
    \cup {[err |-> FALSE, status |-> 200, readErr |-> FALSE, json |-> FALSE, value |-> none]}
    \cup {[err |-> FALSE, status |-> s, readErr |-> FALSE, json |-> TRUE, value |-> b] :
            s \in HttpStatuses, b \in bodies}

\* the service answered with a status of the 2xx class
HttpServed(resp) == ~resp.err /\ resp.status >= 200 /\ resp.status <= 299

\* one served REST call: the request and the status of the response
HttpCall(i, api, request, resp) ==
    [Call(i, api, 0, <<request>>, HttpServed(resp)) EXCEPT !.status = resp.status]

\* mcp.NewToolResultError of a message that embeds a status code
ToolResultStatus(msg, status) == [kind |-> "error", lines |-> <<Line(msg, status, <<>>)>>]

\* the result of a handler whose GET failed: the handler's message for a failed
\* request, its message for a status, and the response
HttpError(what, whatStatus, resp) ==
    IF resp.err THEN ToolResultError(what)
    ELSE IF resp.readErr THEN ToolResultError("Failed to read response body")
    ELSE IF resp.status # 200 THEN ToolResultStatus(whatStatus, resp.status)
    ELSE ToolResultError("Failed to parse response")

HttpFailed(resp) == resp.err \/ resp.readErr \/ resp.status # 200 \/ ~resp.json

----------------------------------------------------------------------------
(* getWikisForProject and the choice of the wiki. *)

Wiki(id, name) == [Id |-> id, Name |-> name]

Documentation == <<"D", "o", "c", "u", "m", "e", "n", "t", "a", "t", "i", "o", "n">>

\* the wiki lists the service may hold for the project
WikiLists ==
    {<<>>,
     <<Wiki("w1", <<"N">>), Wiki("w2", <<"P", "1", ".", "d">>)>>,
     <<Wiki("w1", <<"N">>), Wiki("w2", <<"p", "1">>), Wiki("w3", <<"P", "1">>),
       Wiki("w4", <<"P", "1", "b">>)>>,
     <<Wiki("w1", <<"N">>), Wiki("w2", Documentation), Wiki("w3", <<"x", "P", "1">>)>>}

WikisResponses == HttpResponses(WikiLists, <<>>)

\* a variant that hands the failure over as a text result
WikisErrorAsText(resp) == ToolResultText(<<Line("Failed to get wikis", resp.status, <<>>)>>)

\* the error getWikisForProject returns, as the handlers wrap it
WikisError(resp) ==
    IF resp.err THEN ToolResultError("Failed to get wikis")
    ELSE IF resp.readErr THEN ToolResultError("Failed to get wikis: Failed to read response body")
    ELSE IF resp.status # 200
    THEN ToolResultStatus("Failed to get wikis: Failed to get wikis. Status: %d", resp.status)
    ELSE ToolResultError("Failed to get wikis: Failed to parse wikis response")

\* the wikis as fetched
WikisFetched(resp) == [fetched |-> TRUE, isNil |-> FALSE, list |-> resp.value]

\* the positions of the wikis whose name contains the project name
NameMatches(wikis, project) == {k \in 1..Len(wikis) : Contains(wikis[k].Name, project)}

\* a variant that keeps the spaces of the project name
LooseMatchesKeepsSpaces(wikis, project) ==
    {k \in 1..Len(wikis) :
        \/ Contains(ToLower(wikis[k].Name), ToLower(project))
        \/ Contains(ToLower(wikis[k].Name), ToLower(Documentation))}

\* the positions of the wikis whose lower-cased name contains the lower-cased
\* project name without its spaces, or the word documentation
LooseMatches(wikis, project) ==
    {k \in 1..Len(wikis) :
        \/ Contains(ToLower(wikis[k].Name), ToLower(RemoveSpaces(project)))
        \/ Contains(ToLower(wikis[k].Name), ToLower(Documentation))}

\* a variant that stops at any one of the matching wikis
SelectedWikiIdsAnyMatch(wikis, matches) ==
    IF matches = {} THEN {wikis[1].Id} ELSE {wikis[k].Id : k \in matches}

\* wikiId after the scan: the first wiki's id, replaced by the id of the first
\* match at which the loop breaks
SelectedWikiIds(wikis, matches) ==
    IF matches = {} THEN {wikis[1].Id}
    ELSE {wikis[CHOOSE k \in matches : \A o \in matches : k <= o].Id}

\* the handler asks for the wikis; with at least one it picks its wiki and goes
\* on to label, otherwise it returns
GetWikisThen(i, loose, label) ==
    \E resp \in WikisResponses :
        /\ wire' = Append(wire, HttpCall(i, "GET wikis", [project |-> config.Project], resp))
        /\ IF HttpFailed(resp)
           THEN Finish(i, WikisError(resp)) /\ UNCHANGED loc
           ELSE IF Len(resp.value) = 0
           THEN /\ Finish(i, ToolResultError("No wikis found for this project"))
                /\ loc' = [loc EXCEPT ![i].wikis = WikisFetched(resp)]
           ELSE \E id \in SelectedWikiIds(resp.value,
                              IF loose THEN LooseMatches(resp.value, config.Project)
                                       ELSE NameMatches(resp.value, config.Project)) :
                   /\ loc' = [loc EXCEPT ![i].wikis = WikisFetched(resp), ![i].wikiId = id]
                   /\ Goto(i, label)

----------------------------------------------------------------------------
(* get_available_wikis *)

WikiLines(wikis) ==
    [k \in 1..Len(wikis) |-> Line("%d. Wiki Name: %s\n   Wiki ID: %s", k, <<wikis[k].Name, wikis[k].Id>>)]

handleGetWikis(i) ==
    \/ /\ At(i, "get_available_wikis", "invoked")
       /\ Goto(i, "getWikisForProject")
       /\ UNCHANGED <<boot, items, tool, args, loc, wire>>
    \/ /\ At(i, "get_available_wikis", "getWikisForProject")
       /\ \E resp \in WikisResponses :
             /\ wire' = Append(wire, HttpCall(i, "GET wikis", [project |-> config.Project], resp))
             /\ IF HttpFailed(resp)
                THEN Finish(i, WikisError(resp)) /\ UNCHANGED loc
                ELSE /\ loc' = [loc EXCEPT ![i].wikis = WikisFetched(resp)]
                     /\ IF Len(resp.value) = 0
                        THEN Finish(i, ToolResultError("No wikis found for this project"))
                        ELSE Finish(i, ToolResultText(
                                <<Line("Found %d wikis for project %s:", Len(resp.value),
                                       <<config.Project>>)>> \o WikiLines(resp.value)))
       /\ UNCHANGED <<boot, items, tool, args>>

----------------------------------------------------------------------------
(* manage_wiki_page *)

WikiPaths == {<<"/", "a">>, <<"a">>}

ManageWikiPageBase ==
    [path |-> <<"/", "a">>, content |-> <<"c">>, absent |-> {"comment"}, mistyped |-> {}]

ManageWikiPageBags ==
    {[ManageWikiPageBase EXCEPT !.path = p] : p \in WikiPaths}
    \cup Defective(ManageWikiPageBase, {"path", "content"})

handleManageWikiPage(i) ==
    \/ /\ At(i, "manage_wiki_page", "invoked")
       /\ IF ~Asserted(args[i], {"path", "content"})
          THEN Finish(i, Panicked)
          ELSE Goto(i, "getWikisForProject")
       /\ UNCHANGED <<boot, items, tool, args, loc, wire>>
    \/ /\ At(i, "manage_wiki_page", "getWikisForProject")
       /\ GetWikisThen(i, FALSE, "CreateOrUpdatePage")
       /\ UNCHANGED <<boot, items, tool, args>>
    \/ /\ At(i, "manage_wiki_page", "CreateOrUpdatePage")
       /\ \E fault \in BOOLEAN :
             /\ wire' = Append(wire, Call(i, "CreateOrUpdatePage", 0,
                                  <<[wikiId |-> loc[i].wikiId, path |-> args[i].path,
                                     content |-> args[i].content]>>, ~fault))
             /\ IF fault
                THEN Finish(i, ToolResultError("Failed to manage wiki page"))
                ELSE Finish(i, ToolResultText(
                        <<Line("Successfully managed wiki page: %s", 0, <<args[i].path>>)>>))
       /\ UNCHANGED <<boot, items, tool, args, loc>>

----------------------------------------------------------------------------
(* get_wiki_page *)

GetWikiPageBase ==
    [path |-> <<"/", "a">>, include_children |-> FALSE, absent |-> {}, mistyped |-> {}]

GetWikiPageBags ==
    {[GetWikiPageBase EXCEPT !.path = p, !.include_children = c] : p \in WikiPaths, c \in BOOLEAN}
    \cup Defective(GetWikiPageBase, {"path", "include_children"})

\* the path with the leading slash the handler ensures
SlashedPath(path) == IF HasPrefix(path, <<"/">>) THEN path ELSE <<"/">> \o path

\* the pages the service may hold at a path: content and sub-pages
WikiPages ==
    {[content |-> <<>>, subPages |-> <<>>],
     [content |-> <<"c">>, subPages |-> <<[path |-> <<"/", "a", "/", "b">>, content |-> <<"x">>]>>]}

SubPageLines(subPages) ==
    [k \in 1..Len(subPages) |-> Line("=== %s ===", 0, <<subPages[k].path, subPages[k].content>>)]

WikiPageLines(path, includeChildren, page) ==
    <<Line("=== %s ===", 0, <<path, page.content>>)>>
    \o (IF includeChildren /\ Len(page.subPages) > 0
        THEN <<Line("Sub-pages:", 0, <<>>)>> \o SubPageLines(page.subPages)
        ELSE <<>>)

handleGetWikiPage(i) ==
    \/ /\ At(i, "get_wiki_page", "invoked")
       /\ IF ~Asserted(args[i], {"path"})
          THEN Finish(i, Panicked)
          ELSE Goto(i, "getWikisForProject")
       /\ UNCHANGED <<boot, items, tool, args, loc, wire>>
    \/ /\ At(i, "get_wiki_page", "getWikisForProject")
       /\ GetWikisThen(i, TRUE, "GET pages")
       /\ UNCHANGED <<boot, items, tool, args>>
    \/ /\ At(i, "get_wiki_page", "GET pages")
       /\ \E resp \in HttpResponses(WikiPages, [content |-> <<>>, subPages |-> <<>>]) :
             LET path == SlashedPath(args[i].path)
                 includeChildren == Holds(args[i], "include_children") /\ args[i].include_children
             IN  /\ wire' = Append(wire, HttpCall(i, "GET pages",
                                     [wikiId |-> loc[i].wikiId, path |-> path,
                                      recursionLevel |-> IF includeChildren THEN "oneLevel" ELSE "none"],
                                     resp))
                 /\ IF HttpFailed(resp)
                    THEN /\ Finish(i, HttpError("Failed to get wiki page",
                                                "Failed to get wiki page. Status: %d", resp))
                         /\ UNCHANGED loc
                    ELSE /\ loc' = [loc EXCEPT ![i].got =
                                      [fetched |-> TRUE, isNil |-> FALSE, list |-> resp.value.subPages]]
                         /\ Finish(i, ToolResultText(WikiPageLines(path, includeChildren, resp.value)))
       /\ UNCHANGED <<boot, items, tool, args>>

----------------------------------------------------------------------------
(* list_wiki_pages *)

ListWikiPagesBase ==
    [path |-> <<>>, recursive |-> FALSE, absent |-> {}, mistyped |-> {}]

ListWikiPagesBags ==
    {[ListWikiPagesBase EXCEPT !.path = p, !.recursive = r] : p \in {<<>>, <<"/", "a">>}, r \in BOOLEAN}
    \cup Defective(ListWikiPagesBase, {"path", "recursive"})

\* the page listings the service may hold
WikiPageListings ==
    {<<>>,
     <<[path |-> <<"/", "a">>, isFolder |-> TRUE], [path |-> <<"/", "a", "/", "b">>, isFolder |-> FALSE]>>}

PageLines(pages) ==
    [k \in 1..Len(pages) |->
        Line("%s%s", 0, <<IF pages[k].isFolder THEN <<"folder">> ELSE <<"page">>, pages[k].path>>)]

handleListWikiPages(i) ==
    \/ /\ At(i, "list_wiki_pages", "invoked")
       /\ Goto(i, "getWikisForProject")
       /\ UNCHANGED <<boot, items, tool, args, loc, wire>>
    \/ /\ At(i, "list_wiki_pages", "getWikisForProject")
       /\ GetWikisThen(i, FALSE, "GET pages")
       /\ UNCHANGED <<boot, items, tool, args>>
    \/ /\ At(i, "list_wiki_pages", "GET pages")
       /\ \E resp \in HttpResponses(WikiPageListings, <<>>) :
             LET path == IF Holds(args[i], "path") THEN args[i].path ELSE <<>>
                 recursive == Holds(args[i], "recursive") /\ args[i].recursive
             IN  /\ wire' = Append(wire, HttpCall(i, "GET pages",
                                     [wikiId |-> loc[i].wikiId, path |-> path,
                                      recursionLevel |-> IF recursive THEN "full" ELSE "oneLevel"],
                                     resp))
                 /\ IF HttpFailed(resp)
                    THEN /\ Finish(i, HttpError("Failed to list wiki pages",
                                                "Failed to list wiki pages. Status: %d", resp))
                         /\ UNCHANGED loc
                    ELSE /\ loc' = [loc EXCEPT ![i].got =
                                      [fetched |-> TRUE, isNil |-> FALSE, list |-> resp.value]]
                         /\ Finish(i, ToolResultText(
                                <<Line("Wiki pages%s:", 0,
                                       <<IF path # <<>> THEN <<" ", "i", "n", " ">> \o path ELSE <<>>>>)>>
                                \o PageLines(resp.value)))
       /\ UNCHANGED <<boot, items, tool, args>>

----------------------------------------------------------------------------
(* search_wiki *)

SearchWikiBase ==
    [query |-> <<"a">>, path |-> <<"/", "a">>, absent |-> {"path"}, mistyped |-> {}]

SearchWikiBags ==
    {[SearchWikiBase EXCEPT !.query = q] : q \in {<<"a">>, <<"Z">>, <<>>}}
    \cup {[SearchWikiBase EXCEPT !.absent = {}]}
    \cup Defective(SearchWikiBase, {"query"})

\* the search results the service may hold
WikiSearchResults ==
    {<<>>,
     <<[fileName |-> <<"A", ".", "m", "d">>, path |-> <<"/", "A">>],
       [fileName |-> <<"b", ".", "m", "d">>, path |-> <<"/", "b">>]>>}

\* the part of the file name around the first match, with its ellipses
Snippet(fileName, query) ==
    LET index == IF Len(query) = 0 THEN 0 ELSE IndexOf(ToLower(fileName), ToLower(query)) - 1
        start == IF index > 100 THEN index - 100 ELSE 0
        end   == IF index + Len(query) + 100 < Len(fileName)
                 THEN index + Len(query) + 100 ELSE Len(fileName)
    IN  (IF start > 0 THEN <<".", ".", ".">> ELSE <<>>)
        \o Sub(fileName, start + 1, end)
        \o (IF end < Len(fileName) THEN <<".", ".", ".">> ELSE <<>>)

\* results: one entry per page whose file name contains the query, whatever the case
SearchMatches(pages, query) ==
    SelectSeq(pages, LAMBDA page : Contains(ToLower(page.fileName), ToLower(query)))

MatchLines(matches, query) ==
    [k \in 1..Len(matches) |->
        Line("Page: %s\nMatch: %s", 0, <<matches[k].path, Snippet(matches[k].fileName, query)>>)]

handleSearchWiki(i) ==
    \/ /\ At(i, "search_wiki", "invoked")
       /\ IF ~Asserted(args[i], {"query"})
          THEN Finish(i, Panicked)
          ELSE Goto(i, "getWikisForProject")
       /\ UNCHANGED <<boot, items, tool, args, loc, wire>>
    \/ /\ At(i, "search_wiki", "getWikisForProject")
       /\ GetWikisThen(i, FALSE, "GET pages")
       /\ UNCHANGED <<boot, items, tool, args>>
    \/ /\ At(i, "search_wiki", "GET pages")
       /\ \E resp \in HttpResponses(WikiSearchResults, <<>>) :
             /\ wire' = Append(wire, HttpCall(i, "GET pages",
                                  [wikiId |-> loc[i].wikiId,
                                   path |-> IF Holds(args[i], "path") THEN args[i].path ELSE <<>>,
                                   recursionLevel |-> "full"],
                                  resp))
             /\ IF HttpFailed(resp)
                THEN /\ Finish(i, HttpError("Failed to search wiki",
                                            "Failed to search wiki. Status: %d", resp))
                     /\ UNCHANGED loc
                ELSE LET matches == SearchMatches(resp.value, args[i].query)
                     IN  /\ loc' = [loc EXCEPT ![i].got =
                                      [fetched |-> TRUE, isNil |-> FALSE, list |-> matches]]
                         /\ IF Len(matches) = 0
                            THEN Finish(i, ToolResultText(
                                    <<Line("No matches found for '%s'", 0, <<args[i].query>>)>>))
                            ELSE Finish(i, ToolResultText(
                                    <<Line("Found %d matches:", Len(matches), <<>>)>>
                                    \o MatchLines(matches, args[i].query)))
       /\ UNCHANGED <<boot, items, tool, args>>

----------------------------------------------------------------------------
(* get_current_sprint and get_sprints *)

SprintTeams == {<<"T">>, <<"U">>, <<>>}

GetCurrentSprintBags ==
    {[team |-> t, absent |-> {}, mistyped |-> {}] : t \in SprintTeams}
    \cup {[team |-> <<"T">>, absent |-> {"team"}, mistyped |-> {}],
          [team |-> <<"T">>, absent |-> {}, mistyped |-> {"team"}]}

GetSprintsBase ==
    [team |-> <<"T">>, include_completed |-> FALSE, absent |-> {}, mistyped |-> {}]

GetSprintsBags ==
    {[GetSprintsBase EXCEPT !.team = t, !.include_completed = c] : t \in SprintTeams, c \in BOOLEAN}
    \cup Defective(GetSprintsBase, {"team", "include_completed"})

Sprint(name) == [name |-> name, startDate |-> "2025-01-06", finishDate |-> "2025-01-17"]

\* the iterations the service may return
SprintLists == {<<>>, <<Sprint(<<"S", "1">>), Sprint(<<"S", "2">>)>>}

SprintLines(sprints) ==
    [k \in 1..Len(sprints) |->
        Line("Sprint: %s\nStart: %s\nEnd: %s\n---", 0,
             <<sprints[k].name, sprints[k].startDate, sprints[k].finishDate>>)]

\* team: the argument when it is a non-empty string, else "<project> Team"
SprintTeam(a) ==
    IF Holds(a, "team") /\ a.team # <<>> THEN a.team
    ELSE config.Project \o <<" ", "T", "e", "a", "m">>

\* fullURL: organization, project, the iterations path and the query
\* parameters; the team is not an operand of either Sprintf
IterationsUrl(team, timeframe) == [project |-> config.Project, timeframe |-> timeframe]

handleGetCurrentSprint(i) ==
    \/ /\ At(i, "get_current_sprint", "invoked")
       /\ Goto(i, "GET iterations")
       /\ UNCHANGED <<boot, items, tool, args, loc, wire>>
    \/ /\ At(i, "get_current_sprint", "GET iterations")
       /\ \E resp \in HttpResponses(SprintLists, <<>>) :
             /\ wire' = Append(wire, HttpCall(i, "GET iterations",
                                  IterationsUrl(SprintTeam(args[i]), "current"), resp))
             /\ IF resp.err
                THEN Finish(i, ToolResultError("Failed to get current sprint")) /\ UNCHANGED loc
                ELSE IF resp.status # 200
                THEN /\ Finish(i, ToolResultStatus("Failed to get current sprint. Status: %d",
                                                   resp.status))
                     /\ UNCHANGED loc
                ELSE IF resp.readErr \/ ~resp.json
                THEN Finish(i, ToolResultError("Failed to parse response")) /\ UNCHANGED loc
                ELSE /\ loc' = [loc EXCEPT ![i].got =
                                  [fetched |-> TRUE, isNil |-> FALSE, list |-> resp.value]]
                     /\ IF Len(resp.value) = 0
                        THEN Finish(i, ToolResultText(<<Line("No active sprint found", 0, <<>>)>>))
                        ELSE Finish(i, ToolResultText(
                                <<Line("Current Sprint: %s\nStart Date: %s\nEnd Date: %s", 0,
                                       <<resp.value[1].name, resp.value[1].startDate,
                                         resp.value[1].finishDate>>)>>))
       /\ UNCHANGED <<boot, items, tool, args>>

handleGetSprints(i) ==
    \/ /\ At(i, "get_sprints", "invoked")
       /\ Goto(i, "GET iterations")
       /\ UNCHANGED <<boot, items, tool, args, loc, wire>>
    \/ /\ At(i, "get_sprints", "GET iterations")
       /\ \E resp \in HttpResponses(SprintLists, <<>>) :
             /\ wire' = Append(wire, HttpCall(i, "GET iterations",
                                  IterationsUrl(SprintTeam(args[i]),
                                                IF Holds(args[i], "include_completed")
                                                   /\ args[i].include_completed
                                                THEN "" ELSE "current,future"), resp))
             /\ IF resp.err
                THEN Finish(i, ToolResultError("Failed to get sprints")) /\ UNCHANGED loc
                ELSE IF resp.status # 200
                THEN /\ Finish(i, ToolResultStatus("Failed to get sprints. Status: %d", resp.status))
                     /\ UNCHANGED loc
                ELSE IF resp.readErr \/ ~resp.json
                THEN Finish(i, ToolResultError("Failed to parse response")) /\ UNCHANGED loc
                ELSE /\ loc' = [loc EXCEPT ![i].got =
                                  [fetched |-> TRUE, isNil |-> FALSE, list |-> resp.value]]
                     /\ IF Len(resp.value) = 0
                        THEN Finish(i, ToolResultText(<<Line("No sprints found", 0, <<>>)>>))
                        ELSE Finish(i, ToolResultText(SprintLines(resp.value)))
       /\ UNCHANGED <<boot, items, tool, args>>

----------------------------------------------------------------------------
(* get_related_work_items *)

GetRelatedWorkItemsBase ==
    [id |-> 1, relation_type |-> "all", absent |-> {}, mistyped |-> {}]

GetRelatedWorkItemsBags ==
    {[GetRelatedWorkItemsBase EXCEPT !.id = w, !.relation_type = t] :
        w \in WorkItemIds, t \in {"all", "children", "related", "child"}}
    \cup Defective(GetRelatedWorkItemsBase, {"id", "relation_type"})

\* relationTypeMap of the handler; a missing key reads as ""
RelatedTypeMap(relationType) ==
    CASE relationType = "parent"   -> "System.LinkTypes.Hierarchy-Reverse"
      [] relationType = "children" -> "System.LinkTypes.Hierarchy-Forward"
      [] relationType = "related"  -> "System.LinkTypes.Related"
      [] OTHER -> ""

\* the last segment of a relation's URL
LastSegment(url) == LET parts == Split(url, <<"/">>) IN parts[Len(parts)]

\* the relations of the asked type whose URL ends in a number
RelatedRelations(relations, relationType) ==
    SelectSeq(relations,
              LAMBDA r : /\ relationType = "all" \/ r.rel = RelatedTypeMap(relationType)
                         /\ AtoiOk(LastSegment(r.url)))

\* relatedIds
RelatedIds(relations, relationType) ==
    LET related == RelatedRelations(relations, relationType)
    IN  [k \in 1..Len(related) |-> Atoi(LastSegment(related[k].url))]

DebugLines(relations, relationType) ==
    <<Line("Looking for relation type: %s (mapped to: %s)", 0,
           <<relationType, RelatedTypeMap(relationType)>>)>>
    \o [k \in 1..Len(relations) |-> Line("Found relation of type: %s", 0, <<relations[k].rel>>)]

handleGetRelatedWorkItems(i) ==
    \/ /\ At(i, "get_related_work_items", "invoked")
       /\ IF ~Asserted(args[i], {"id", "relation_type"})
          THEN Finish(i, Panicked)
          ELSE Goto(i, "GetWorkItem")
       /\ UNCHANGED <<boot, items, tool, args, loc, wire>>
    \/ /\ At(i, "get_related_work_items", "GetWorkItem")
       /\ \E fault \in BOOLEAN, got \in RelationsReturned(Current(args[i].id), TRUE) :
             /\ GetServed(i, args[i].id, TRUE, fault)
             /\ IF fault
                THEN Finish(i, ToolResultError("Failed to get work item")) /\ UNCHANGED loc
                ELSE IF got.isNil
                THEN /\ Finish(i, ToolResultText(<<Line("No related items found", 0, <<>>)>>))
                     /\ loc' = [loc EXCEPT ![i].got = got]
                ELSE LET relatedIds == RelatedIds(got.list, args[i].relation_type)
                     IN  /\ loc' = [loc EXCEPT ![i].got = got, ![i].ids = relatedIds]
                         /\ IF Len(relatedIds) = 0
                            THEN Finish(i, ToolResultText(
                                    DebugLines(got.list, args[i].relation_type)
                                    \o <<Line("No matching related items found", 0, <<>>)>>))
                            ELSE Goto(i, "GetWorkItems")
       /\ UNCHANGED <<boot, tool, args>>
    \/ /\ At(i, "get_related_work_items", "GetWorkItems")
       /\ \E fault \in BOOLEAN :
             /\ wire' = Append(wire, Call(i, "GetWorkItems", 0, loc[i].ids,
                                          GetWorkItemsOk(loc[i].ids, fault)))
             /\ IF GetWorkItemsOk(loc[i].ids, fault)
                THEN Finish(i, ToolResultText(
                        [k \in 1..Len(loc[i].ids) |-> Line("ID: %d, Title: %s", loc[i].ids[k], <<>>)]))
                ELSE Finish(i, ToolResultError("Failed to get related items"))
       /\ UNCHANGED <<boot, items, tool, args, loc>>

----------------------------------------------------------------------------
(* get_work_item_attachments *)

IdBags == {[id |-> w, absent |-> {}, mistyped |-> {}] : w \in WorkItemIds}
          \cup Defective([id |-> 1, absent |-> {}, mistyped |-> {}], {"id"})

\* results: one entry per relation of type AttachedFile
AttachmentsOf(relations) == SelectSeq(relations, LAMBDA r : r.rel = "AttachedFile")

AttachmentLines(attachments) ==
    [k \in 1..Len(attachments) |->
        Line("ID: %s\nName: %s\nURL: %s\n---", 0, <<attachments[k].url, attachments[k].name>>)]

handleGetWorkItemAttachments(i) ==
    \/ /\ At(i, "get_work_item_attachments", "invoked")
       /\ IF ~Asserted(args[i], {"id"})
          THEN Finish(i, Panicked)
          ELSE Goto(i, "GetWorkItem")
       /\ UNCHANGED <<boot, items, tool, args, loc, wire>>
    \/ /\ At(i, "get_work_item_attachments", "GetWorkItem")
       /\ \E fault \in BOOLEAN, got \in RelationsReturned(Current(args[i].id), TRUE) :
             /\ GetServed(i, args[i].id, TRUE, fault)
             /\ IF fault
                THEN Finish(i, ToolResultError("Failed to get work item")) /\ UNCHANGED loc
                ELSE /\ loc' = [loc EXCEPT ![i].got = got]
                     /\ IF got.isNil \/ Len(AttachmentsOf(got.list)) = 0
                        THEN Finish(i, ToolResultText(
                                <<Line("No attachments found for work item #%d", args[i].id, <<>>)>>))
                        ELSE Finish(i, ToolResultText(AttachmentLines(AttachmentsOf(got.list))))
       /\ UNCHANGED <<boot, tool, args>>

----------------------------------------------------------------------------
(* get_work_item_tags *)

handleGetWorkItemTags(i) ==
    \/ /\ At(i, "get_work_item_tags", "invoked")
       /\ IF ~Asserted(args[i], {"id"})
          THEN Finish(i, Panicked)
          ELSE Goto(i, "GetWorkItem")
       /\ UNCHANGED <<boot, items, tool, args, loc, wire>>
    \/ /\ At(i, "get_work_item_tags", "GetWorkItem")
       /\ \E fault \in BOOLEAN :
             /\ GetServed(i, args[i].id, FALSE, fault)
             /\ IF fault
                THEN Finish(i, ToolResultError("Failed to get work item")) /\ UNCHANGED loc
                ELSE LET item == Current(args[i].id)
                     IN  /\ loc' = [loc EXCEPT ![i].read = CurrentTags(item)]
                         /\ IF item.hasTags /\ item.tags # <<>>
                            THEN Finish(i, ToolResultText(
                                    <<Line("Tags for work item #%d:\n%s", args[i].id, <<item.tags>>)>>))
                            ELSE Finish(i, ToolResultText(
                                    <<Line("No tags found for work item #%d", args[i].id, <<>>)>>))
       /\ UNCHANGED <<boot, tool, args>>

----------------------------------------------------------------------------
(* get_work_item_templates *)

GetWorkItemTemplatesBase == [type |-> "Bug", absent |-> {}, mistyped |-> {}]

GetWorkItemTemplatesBags ==
    {GetWorkItemTemplatesBase} \cup Defective(GetWorkItemTemplatesBase, {"type"})

\* a template as the service lists it; its description is optional
Template(id, hasDescription) == [id |-> id, name |-> "T", hasDescription |-> hasDescription]

\* the template lists the service may return for a work item type
TemplateLists ==
    {<<>>, <<Template("t1", TRUE)>>, <<Template("t1", TRUE), Template("t2", FALSE)>>}

TemplateLines(templates) ==
    [k \in 1..Len(templates) |->
        Line("Template ID: %s\nName: %s\nDescription: %s\n---", 0, <<templates[k].id, templates[k].name>>)]

handleGetWorkItemTemplates(i) ==
    \/ /\ At(i, "get_work_item_templates", "invoked")
       /\ IF ~Asserted(args[i], {"type"})
          THEN Finish(i, Panicked)
          ELSE Goto(i, "GetTemplates")
       /\ UNCHANGED <<boot, items, tool, args, loc, wire>>
    \/ /\ At(i, "get_work_item_templates", "GetTemplates")
       /\ \E fault \in BOOLEAN, templates \in TemplateLists :
             /\ wire' = Append(wire, Call(i, "GetTemplates", 0, <<args[i].type>>, ~fault))
             /\ IF fault
                THEN Finish(i, ToolResultError("Failed to get templates")) /\ UNCHANGED loc
                ELSE /\ loc' = [loc EXCEPT ![i].got =
                                  [fetched |-> TRUE, isNil |-> FALSE, list |-> templates]]
                     /\ IF \E k \in 1..Len(templates) : ~templates[k].hasDescription
                        THEN Finish(i, Panicked)
                        ELSE IF Len(templates) = 0
                        THEN Finish(i, ToolResultText(
                                <<Line("No templates found for type: %s", 0, <<args[i].type>>)>>))
                        ELSE Finish(i, ToolResultText(TemplateLines(templates)))
       /\ UNCHANGED <<boot, items, tool, args>>

----------------------------------------------------------------------------
(* The state after startup: the remote service holds the project's work    *)
(* items and no invocation has been received.                              *)

InitialItems ==
    {[hasTags |-> FALSE, tags |-> <<>>, relations |-> <<>>],
     [hasTags |-> TRUE, tags |-> <<"a">>,
      relations |-> <<Attachment(<<"f", "1">>, "log.txt"),
                      Relation("System.LinkTypes.Related", WorkItemUrl(2), "")>>],
     [hasTags |-> TRUE, tags |-> <<"a", ";", " ", "b">>,
      relations |-> <<Relation("System.LinkTypes.Hierarchy-Forward", WorkItemUrl(2), ""),
                      Attachment(<<"f", "1", "2">>, "a.png"),
                      Relation("System.LinkTypes.Related", WorkItemUrl(2), ""),
                      Attachment(<<"f", "1">>, "log.txt")>>]}

\* the environment variables as main reads them; an unset variable reads as ""
Environment(org, pat, project) == [org |-> org, pat |-> pat, project |-> project]

\* config as main's composite literal fills it
LoadedConfig(e) ==
    [OrganizationURL |-> <<"https://dev.azure.com/">> \o e.org,
     PersonalAccessToken |-> e.pat,
     Project |-> e.project]

\* the process as it serves: the project is "P1"
ServingEnvironment == Environment(<<"o", "r", "g">>, <<"p", "a", "t">>, <<"P", "1">>)

Init ==
    /\ env = ServingEnvironment
    /\ config = LoadedConfig(ServingEnvironment)
    /\ phase = "serving"
    /\ items \in [WorkItemIds -> {<<item>> : item \in InitialItems}]
    /\ pc = [i \in Slots |-> "idle"]
    /\ tool = [i \in Slots |-> ""]
    /\ args = [i \in Slots |-> [absent |-> {}, mistyped |-> {}]]
    /\ loc = [i \in Slots |-> EmptyLoc]
    /\ result = [i \in Slots |-> NoResult]
    /\ wire = <<>>

Requests ==
    Request("create_work_item", CreateWorkItemBags)
    \cup Request("update_work_item", UpdateWorkItemBags)
    \cup Request("manage_work_item_tags", ManageWorkItemTagsBags)
    \cup Request("manage_work_item_relations", ManageWorkItemRelationsBags)
    \cup Request("remove_work_item_attachment", RemoveWorkItemAttachmentBags)
    \cup Request("add_work_item_attachment", AddWorkItemAttachmentBags)
    \cup Request("get_work_item_details", GetWorkItemDetailsBags)
    \cup Request("create_from_template", CreateFromTemplateBags)
    \cup Request("query_work_items", QueryWorkItemsBags)
    \cup Request("batch_update_work_items", BatchUpdateWorkItemsBags)
    \cup Request("batch_create_work_items", BatchCreateWorkItemsBags)
    \cup Request("get_available_wikis", {[absent |-> {}, mistyped |-> {}]})
    \cup Request("manage_wiki_page", ManageWikiPageBags)
    \cup Request("get_wiki_page", GetWikiPageBags)
    \cup Request("list_wiki_pages", ListWikiPagesBags)
    \cup Request("search_wiki", SearchWikiBags)
    \cup Request("get_current_sprint", GetCurrentSprintBags)
    \cup Request("get_sprints", GetSprintsBags)
    \cup Request("get_related_work_items", GetRelatedWorkItemsBags)
    \cup Request("get_work_item_attachments", IdBags)
    \cup Request("get_work_item_tags", IdBags)
    \cup Request("get_work_item_templates", GetWorkItemTemplatesBags)

\* one invocation, served alone
Next ==
    \/ Invoke(1, Requests)
    \/ handleCreateWorkItem(1)
    \/ handleUpdateWorkItem(1)
    \/ handleManageWorkItemTags(1)
    \/ handleManageWorkItemRelations(1)
    \/ handleRemoveWorkItemAttachment(1)
    \/ handleAddWorkItemAttachment(1)
    \/ handleGetWorkItemDetails(1)
    \/ handleCreateFromTemplate(1)
    \/ handleQueryWorkItems(1)
    \/ handleBatchUpdateWorkItems(1)
    \/ handleBatchCreateWorkItems(1)
    \/ handleGetWikis(1)
    \/ handleManageWikiPage(1)
    \/ handleGetWikiPage(1)
    \/ handleListWikiPages(1)
    \/ handleSearchWiki(1)
    \/ handleGetCurrentSprint(1)
    \/ handleGetSprints(1)
    \/ handleGetRelatedWorkItems(1)
    \/ handleGetWorkItemAttachments(1)
    \/ handleGetWorkItemTags(1)
    \/ handleGetWorkItemTemplates(1)

Spec == Init /\ [][Next]_vars

\* the service holds work items that carry tags, links and attachments
InitLive ==
    /\ Init
    /\ \A w \in WorkItemIds : Len(Current(w).relations) = 4

\* the next step of the handler that serves slot i
Run(i) ==
    \/ handleCreateWorkItem(i)
    \/ handleUpdateWorkItem(i)
    \/ handleManageWorkItemTags(i)
    \/ handleManageWorkItemRelations(i)
    \/ handleRemoveWorkItemAttachment(i)
    \/ handleAddWorkItemAttachment(i)
    \/ handleGetWorkItemDetails(i)
    \/ handleCreateFromTemplate(i)
    \/ handleQueryWorkItems(i)
    \/ handleBatchUpdateWorkItems(i)
    \/ handleBatchCreateWorkItems(i)
    \/ handleGetWikis(i)
    \/ handleManageWikiPage(i)
    \/ handleGetWikiPage(i)
    \/ handleListWikiPages(i)
    \/ handleSearchWiki(i)
    \/ handleGetCurrentSprint(i)
    \/ handleGetSprints(i)
    \/ handleGetRelatedWorkItems(i)
    \/ handleGetWorkItemAttachments(i)
    \/ handleGetWorkItemTags(i)
    \/ handleGetWorkItemTemplates(i)

\* The server calls the handler as soon as the request is read, and the handler
\* runs on without waiting for anything but its remote calls; as long as each
\* of them returns, a handler that can take a step takes it.
SpecLive == InitLive /\ [][Next]_vars /\ WF_vars(Run(1))

----------------------------------------------------------------------------
(* Startup: main loads the configuration from the environment, validates   *)
(* it, constructs the clients, registers the tools and serves.             *)

EnvironmentValues == {<<>>, <<" ">>, <<"P", "1">>}

Environments ==
    {Environment(org, pat, project) :
        org \in EnvironmentValues, pat \in EnvironmentValues, project \in EnvironmentValues}

ZeroConfig == [OrganizationURL |-> <<>>, PersonalAccessToken |-> <<>>, Project |-> <<>>]

\* the validation of main: one of the three fields is the empty string
ConfigIncomplete(c) ==
    c.OrganizationURL = <<>> \/ c.PersonalAccessToken = <<>> \/ c.Project = <<>>

InitStartup ==
    /\ env \in Environments
    /\ config = ZeroConfig
    /\ phase = "start"
    /\ items \in [WorkItemIds -> {<<item>> : item \in InitialItems}]
    /\ pc = [i \in Slots |-> "idle"]
    /\ tool = [i \in Slots |-> ""]
    /\ args = [i \in Slots |-> [absent |-> {}, mistyped |-> {}]]
    /\ loc = [i \in Slots |-> EmptyLoc]
    /\ result = [i \in Slots |-> NoResult]
    /\ wire = <<>>

LoadConfig ==
    /\ phase = "start"
    /\ config' = LoadedConfig(env)
    /\ phase' = IF ConfigIncomplete(LoadedConfig(env)) THEN "fatal" ELSE "validated"
    /\ UNCHANGED <<env, items, pc, tool, args, loc, result, wire>>

\* initializeClients: each NewClient asks the service and can fail
InitializeClients ==
    /\ phase = "validated"
    /\ \E failed \in BOOLEAN : phase' = IF failed THEN "fatal" ELSE "clients"
    /\ UNCHANGED <<env, config, items, pc, tool, args, loc, result, wire>>

\* the tools are registered and the server starts to read requests
Serve ==
    /\ phase = "clients"
    /\ phase' = "serving"
    /\ UNCHANGED <<env, config, items, pc, tool, args, loc, result, wire>>

NextStartup ==
    \/ LoadConfig
    \/ InitializeClients
    \/ Serve
    \/ Invoke(1, Request("update_work_item", UpdateWorkItemBags))
    \/ handleUpdateWorkItem(1)

SpecStartup == InitStartup /\ [][NextStartup]_vars

----------------------------------------------------------------------------
(* Two invocations served concurrently: the transport hands each to its    *)
(* handler without waiting for the other, and the remote service serves    *)
(* their calls one at a time in any order.  The tools are those that read  *)
(* a work item and then patch it.                                          *)

ConcTagArguments == {<<"a">>, <<"b">>, <<>>, <<"a", ";", " ", "b">>}

ConcManageWorkItemTagsBags ==
    {[ManageWorkItemTagsBase EXCEPT !.id = w, !.operation = o, !.tags = t] :
        w \in WorkItemIds, o \in {"add", "remove"}, t \in ConcTagArguments}

ConcManageWorkItemRelationsBags ==
    {[ManageWorkItemRelationsBase EXCEPT !.source_id = w, !.relation_type = r, !.operation = o] :
        w \in WorkItemIds, r \in {"child", "related"}, o \in {"add", "remove"}}

ConcRemoveWorkItemAttachmentBags ==
    {[RemoveWorkItemAttachmentBase EXCEPT !.id = w, !.attachment_id = a] :
        w \in WorkItemIds, a \in {<<"f", "1">>, <<"1", "2">>}}

ConcRequests ==
    Request("manage_work_item_tags", ConcManageWorkItemTagsBags)
    \cup Request("manage_work_item_relations", ConcManageWorkItemRelationsBags)
    \cup Request("remove_work_item_attachment", ConcRemoveWorkItemAttachmentBags)

\* slots are taken in the order the invocations arrive
Arrive(i) ==
    /\ \A j \in Slots : j < i => pc[j] # "idle"
    /\ Invoke(i, ConcRequests)

NextConc ==
    \E i \in Slots :
        \/ Arrive(i)
        \/ handleManageWorkItemTags(i)
        \/ handleManageWorkItemRelations(i)
        \/ handleRemoveWorkItemAttachment(i)

SpecConc == Init /\ [][NextConc]_vars

----------------------------------------------------------------------------
(* Two invocations of the wiki tools, for a project whose name the wikis'  *)
(* names may or may not contain.                                           *)

WikiProjects == {<<"P", "1">>, <<"P", " ", "1">>}

InitWiki ==
    /\ env \in {Environment(<<"o", "r", "g">>, <<"p", "a", "t">>, p) : p \in WikiProjects}
    /\ config = LoadedConfig(env)
    /\ phase = "serving"
    /\ items = [w \in WorkItemIds |-> <<[hasTags |-> FALSE, tags |-> <<>>, relations |-> <<>>]>>]
    /\ pc = [i \in Slots |-> "idle"]
    /\ tool = [i \in Slots |-> ""]
    /\ args = [i \in Slots |-> [absent |-> {}, mistyped |-> {}]]
    /\ loc = [i \in Slots |-> EmptyLoc]
    /\ result = [i \in Slots |-> NoResult]
    /\ wire = <<>>

WikiRequests ==
    Request("manage_wiki_page", {ManageWikiPageBase})
    \cup Request("get_wiki_page", {GetWikiPageBase})
    \cup Request("list_wiki_pages", {ListWikiPagesBase})
    \cup Request("search_wiki", {SearchWikiBase})

NextWiki ==
    \E i \in Slots :
        \/ (\A j \in Slots : j < i => pc[j] # "idle") /\ Invoke(i, WikiRequests)
        \/ handleManageWikiPage(i)
        \/ handleGetWikiPage(i)
        \/ handleListWikiPages(i)
        \/ handleSearchWiki(i)

SpecWiki == InitWiki /\ [][NextWiki]_vars

----------------------------------------------------------------------------
(* Two invocations of the sprint tools, which may name different teams.    *)

SprintRequests ==
    Request("get_current_sprint", GetCurrentSprintBags)
    \cup Request("get_sprints", GetSprintsBags)

NextSprint ==
    \E i \in Slots :
        \/ (\A j \in Slots : j < i => pc[j] # "idle") /\ Invoke(i, SprintRequests)
        \/ handleGetCurrentSprint(i)
        \/ handleGetSprints(i)

SpecSprint == InitLive /\ [][NextSprint]_vars

----------------------------------------------------------------------------
(* Properties of the handlers.                                             *)

\* the remote calls slot i issued, in the order they were served
CallsOf(i) == SelectSeq(wire, LAMBDA c : c.slot = i)

\* the tag set a list of tags stands for
TagSet(list) == {TrimSpace(t) : t \in Range(list)}

\* C1: the Patch document create_work_item sends is add /fields/System.Title
\* with the given title, then add /fields/System.Description with the given
\* description, then add /fields/Microsoft.VSTS.Common.Priority with the given
\* priority if and only if a priority was supplied, and nothing else; every
\* invocation that gets past its arguments sends exactly one such document.
C1_CreateDocumentShape ==
    \A i \in Slots :
        tool[i] = "create_work_item" =>
            LET a == args[i]
                calls == CallsOf(i)
                supplied == "priority" \notin a.absent /\ "priority" \notin a.mistyped
            IN  /\ Len(calls) <= 1
                /\ (pc[i] = "done" /\ result[i].kind # "panic") => Len(calls) = 1
                /\ \A k \in 1..Len(calls) :
                      /\ calls[k].api = "CreateWorkItem"
                      /\ Len(calls[k].body) = (IF supplied THEN 3 ELSE 2)
                      /\ calls[k].body[1] = PatchOp("add", FieldPath("System.Title"), a.title)
                      /\ calls[k].body[2] =
                            PatchOp("add", FieldPath("System.Description"), a.description)
                      /\ supplied =>
                            calls[k].body[3] =
                                PatchOp("add", FieldPath("Microsoft.VSTS.Common.Priority"),
                                        a.priority)

\* a create was sent whose priority was supplied as the empty string
C1_EmptyPrioritySent ==
    \E i \in Slots :
        /\ tool[i] = "create_work_item"
        /\ args[i].absent = {} /\ args[i].mistyped = {}
        /\ args[i].priority = ""
        /\ Len(CallsOf(i)) = 1
        /\ Len(CallsOf(i)[1].body) = 3

\* C2: when manage_work_item_relations is invoked with an operation other than
\* add and the fetched work item has no relation of the mapped type whose URL is
\* the target's (it may have no relations at all), the invocation ends with an
\* Error result and sends no UpdateWorkItem.
C2_RemoveWithoutMatchIsError ==
    \A i \in Slots :
        (/\ tool[i] = "manage_work_item_relations"
         /\ loc[i].got.fetched
         /\ \/ loc[i].got.isNil
            \/ ~ \E k \in 1..Len(loc[i].got.list) :
                    /\ loc[i].got.list[k].rel = RelationTypeMap(args[i].relation_type)
                    /\ loc[i].got.list[k].url = WorkItemUrl(args[i].target_id))
        => /\ pc[i] = "done"
           /\ result[i].kind = "error"
           /\ \A k \in 1..Len(wire) :
                 wire[k].slot = i => wire[k].api # "UpdateWorkItem"

\* a removal fetched a non-empty relation list that holds no such relation
C2_NoSuchRelationAmongSome ==
    \E i \in Slots :
        /\ tool[i] = "manage_work_item_relations"
        /\ loc[i].got.fetched /\ ~loc[i].got.isNil /\ Len(loc[i].got.list) > 0
        /\ RelationMatches(loc[i].got.list, RelationTypeMap(args[i].relation_type),
                           args[i].target_id) = {}
        /\ result[i].kind = "error"

\* the positions of the updates whose field is one of the four aliases, ascending
ValidPositions(updates) ==
    SelectSeq([k \in 1..Len(updates) |-> k], LAMBDA k : updates[k].field \in FieldAliases)

\* C3: a batch_update_work_items invocation with N updates of which exactly one
\* names a field outside the four aliases returns an Ok result of N entries in
\* input order; the entry of that update is the invalid-field failure and no
\* remote update is sent for it; one remote update is sent for each of the
\* other N-1 updates, in input order, and each of their entries reports the
\* success or the failure of its own remote call.
C3_OneInvalidFieldIsItemLocal ==
    \A i \in Slots :
        (/\ tool[i] = "batch_update_work_items"
         /\ pc[i] = "done"
         /\ args[i].absent = {} /\ args[i].mistyped = {}
         /\ args[i].updates.json = "array")
        => LET updates == args[i].updates.items
               N == Len(updates)
               bad == {k \in 1..N : updates[k].field \notin FieldAliases}
               valid == ValidPositions(updates)
               calls == CallsOf(i)
               lines == result[i].lines
           IN  Cardinality(bad) = 1 =>
                  /\ result[i].kind = "ok"
                  /\ Len(lines) = N
                  /\ \A k \in 1..N :
                        /\ lines[k].id = updates[k].id
                        /\ k \in bad <=> lines[k].msg = "Invalid field for #%d: %s"
                        /\ k \in bad => lines[k].arg = <<updates[k].field>>
                  /\ Len(calls) = N - 1
                  /\ \A j \in 1..Len(calls) :
                        /\ calls[j].api = "UpdateWorkItem"
                        /\ calls[j].id = updates[valid[j]].id
                        /\ calls[j].body =
                              <<PatchOp("replace", FieldPath(FieldMap(updates[valid[j]].field)),
                                        updates[valid[j]].value)>>
                        /\ lines[valid[j]].msg =
                              (IF calls[j].ok THEN "Updated work item #%d"
                               ELSE "Failed to update #%d: %v")

\* a batch of three whose second update is the invalid one, whose first update
\* failed remotely and whose third succeeded
C3_InvalidBetweenFailureAndSuccess ==
    \E i \in Slots :
        /\ tool[i] = "batch_update_work_items"
        /\ pc[i] = "done"
        /\ args[i].absent = {} /\ args[i].mistyped = {}
        /\ Len(args[i].updates.items) = 3
        /\ {k \in 1..3 : args[i].updates.items[k].field \notin FieldAliases} = {2}
        /\ Len(result[i].lines) = 3
        /\ result[i].lines[1].msg = "Failed to update #%d: %v"
        /\ result[i].lines[3].msg = "Updated work item #%d"

\* C4: when the query matches M > 20 work items, query_work_items asks for the
\* details of exactly the first 20 ids in result order, in one request, and the
\* header of its result states the total M; when 1 <= M <= 20 it asks for the
\* details of exactly the M ids.
C4_DetailsCappedAtTwenty ==
    \A i \in Slots :
        (/\ tool[i] = "query_work_items"
         /\ pc[i] = "done"
         /\ Len(CallsOf(i)) > 0
         /\ CallsOf(i)[1].ok
         /\ Len(CallsOf(i)[1].body) >= 1)
        => LET calls == CallsOf(i)
               refs == calls[1].body
               M == Len(refs)
               want == IF M > 20 THEN 20 ELSE M
           IN  /\ Len(calls) = 2
               /\ calls[1].api = "QueryByWiql"
               /\ calls[2].api = "GetWorkItems"
               /\ calls[2].body = [k \in 1..want |-> refs[k]]
               /\ result[i].kind = "ok"
               /\ result[i].lines[1].id = M
               /\ result[i].lines[1].n = want

\* a query matched more than 20 work items, listed in descending id order
C4_MoreThanTwentyMatched ==
    \E i \in Slots :
        /\ tool[i] = "query_work_items"
        /\ pc[i] = "done"
        /\ Len(CallsOf(i)) = 2
        /\ Len(CallsOf(i)[1].body) > 20
        /\ CallsOf(i)[1].body[1] > CallsOf(i)[1].body[2]
        /\ Len(CallsOf(i)[2].body) = 20

\* the tags a manage_work_item_tags invocation wrote back, as a list
WrittenTags(i) ==
    IF loc[i].doc[1].value = <<>> THEN <<>> ELSE Split(loc[i].doc[1].value, <<";", " ">>)

\* C6: an add of tags that are all present already writes back a tag set equal
\* to the set read, without duplicates; a remove of tags none of which is
\* present writes back a tag set equal to the set read.
C6_NoOpTagEdits ==
    \A i \in Slots :
        (/\ tool[i] = "manage_work_item_tags"
         /\ pc[i] \in {"UpdateWorkItem", "done"}
         /\ Len(loc[i].doc) = 1)
        => LET given == TagSet(Split(args[i].tags, <<",">>))
               read == TagSet(loc[i].read)
               written == WrittenTags(i)
           IN  /\ (args[i].operation = "add" /\ given \subseteq read)
                     => /\ TagSet(written) = read
                        /\ Cardinality(TagSet(written)) = Len(written)
               /\ (args[i].operation = "remove" /\ given \cap read = {})
                     => TagSet(written) = read

\* an add of a tag that the work item carries already was written back
C6_PresentTagAdded ==
    \E i \in Slots :
        /\ tool[i] = "manage_work_item_tags"
        /\ pc[i] = "done" /\ result[i].kind = "ok"
        /\ args[i].operation = "add"
        /\ TagSet(loc[i].read) # {}
        /\ TagSet(Split(args[i].tags, <<",">>)) \subseteq TagSet(loc[i].read)

\* C7: no handler aborts on an argument bag in which a declared argument is
\* absent or of the wrong dynamic type: it returns a result.
C7_NoHandlerAborts ==
    \A i \in Slots : result[i].kind # "panic"

\* the invocation's identifier argument is malformed: a non-numeric element in
\* ids, a template_id that is no UUID or field_values that is no JSON object,
\* or content that is no base64
Malformed(i) ==
    /\ args[i].absent = {} /\ args[i].mistyped = {}
    /\ \/ tool[i] = "get_work_item_details" /\ BadIdPositions(args[i].ids) # {}
       \/ /\ tool[i] = "create_from_template"
          /\ ~UuidParseOk(args[i].template_id) \/ args[i].field_values.json # "object"
       \/ tool[i] = "add_work_item_attachment" /\ ~Base64Ok(args[i].content)

\* C10: an invocation whose identifier argument is malformed ends with an
\* Error result and has sent no remote call.
C10_MalformedRejectedBeforeNetwork ==
    \A i \in Slots :
        (pc[i] \notin {"idle", "invoked"} /\ Malformed(i))
        => /\ pc[i] = "done"
           /\ result[i].kind = "error"
           /\ CallsOf(i) = <<>>

\* slot i ran manage_work_item_tags with operation add and then slot j ran it with
\* operation remove, for the same tags on the same work item, one after the
\* other, every remote call succeeding
AddThenRemove(i, j) ==
    /\ i # j
    /\ tool[i] = "manage_work_item_tags" /\ tool[j] = "manage_work_item_tags"
    /\ pc[i] = "done" /\ pc[j] = "done"
    /\ args[i].operation = "add" /\ args[j].operation = "remove"
    /\ args[i].id = args[j].id
    /\ args[i].tags = args[j].tags
    /\ Len(wire) = 4
    /\ wire[1].slot = i /\ wire[2].slot = i /\ wire[3].slot = j /\ wire[4].slot = j
    /\ \A k \in 1..4 : wire[k].ok

\* the tag set of revision r of work item w
TagSetAt(w, r) == TagSet(CurrentTags(items[w][r]))

\* C5 as stated: add x and then remove x leaves the tag set of the work item
\* equal to the tag set T it had before, for every T and every x.
C5_RemoveUndoesAdd ==
    \A i, j \in Slots :
        AddThenRemove(i, j) =>
            TagSetAt(args[i].id, Len(items[args[i].id])) = TagSetAt(args[i].id, 1)

\* C5 amended: add x and then remove x leaves the tag set of the work item equal
\* to the tag set T it had before, for every T and every x that is not in T
\* already and does not contain the separator "; ".
C5_RemoveUndoesAddOfNewTag ==
    \A i, j \in Slots :
        (/\ AddThenRemove(i, j)
         /\ LET given == TagSet(Split(args[i].tags, <<",">>))
            IN  /\ given \cap TagSetAt(args[i].id, 1) = {}
                /\ \A x \in given : ~Contains(x, <<";", " ">>))
        => TagSetAt(args[i].id, Len(items[args[i].id])) = TagSetAt(args[i].id, 1)

\* a new tag was added to a work item that carries tags, and then removed
C5_NewTagAddedThenRemoved ==
    \E i, j \in Slots :
        /\ AddThenRemove(i, j)
        /\ TagSetAt(args[i].id, 1) # {}
        /\ Len(items[args[i].id]) = 3
        /\ TagSetAt(args[i].id, 2) # TagSetAt(args[i].id, 1)
        /\ TagSet(Split(args[i].tags, <<",">>)) \cap TagSetAt(args[i].id, 1) = {}
        /\ \A x \in TagSet(Split(args[i].tags, <<",">>)) : ~Contains(x, <<";", " ">>)

\* slots i and j both remove a relation of the same work item; both read its
\* relation list before either patch was served, then the patch of i was applied
\* and the patch of j reached the service
ReadReadPatchPatch(i, j) ==
    /\ i # j
    /\ tool[i] = "manage_work_item_relations" /\ tool[j] = "manage_work_item_relations"
    /\ args[i].operation # "add" /\ args[j].operation # "add"
    /\ args[i].source_id = args[j].source_id
    /\ Len(wire) = 4
    /\ wire[1].api = "GetWorkItem" /\ wire[2].api = "GetWorkItem"
    /\ wire[3].api = "UpdateWorkItem" /\ wire[3].slot = i /\ wire[3].ok
    /\ wire[4].api = "UpdateWorkItem" /\ wire[4].slot = j /\ ~wire[4].fault

\* the position (from 1) of the first relation of list that slot i asked to remove
Matched(i, list) ==
    CHOOSE k \in 1..Len(list) :
        /\ list[k].rel = RelationTypeMap(args[i].relation_type)
        /\ list[k].url = WorkItemUrl(args[i].target_id)
        /\ \A o \in 1..(k - 1) :
              ~(/\ list[o].rel = RelationTypeMap(args[i].relation_type)
                /\ list[o].url = WorkItemUrl(args[i].target_id))

\* C8: two concurrent relation removals on one work item race.  When both read the
\* relation list L before either patch is applied and the first patch removes a
\* position at or before the one the second invocation matched, the second patch
\* does not remove the entry that invocation matched: it is rejected when the
\* matched position was the last of L, and otherwise it removes the entry that
\* followed the matched one in L.
C8_StaleIndexRemovesWrongEntryOrFails ==
    \A i, j \in Slots :
        ReadReadPatchPatch(i, j) =>
            LET w == args[i].source_id
                L == items[w][1].relations
                p == Matched(i, L)
                q == Matched(j, L)
            IN  p <= q =>
                   /\ wire[4].ok <=> q < Len(L)
                   /\ ~wire[4].ok => Current(w).relations = RemoveAt(L, p)
                   /\ wire[4].ok => Current(w).relations = RemoveAt(RemoveAt(L, p), q)

\* the second of two racing removals deleted an attachment in place of the
\* relation it had matched
C8_RaceRemovedAnAttachment ==
    \E i, j \in Slots :
        /\ ReadReadPatchPatch(i, j)
        /\ wire[4].ok
        /\ LET L == items[args[i].source_id][1].relations
           IN  /\ Matched(i, L) <= Matched(j, L)
               /\ L[Matched(j, L)].rel # "AttachedFile"
               /\ L[Matched(j, L) + 1].rel = "AttachedFile"
               /\ Len(Current(args[i].source_id).relations) = Len(L) - 2

\* the work item an invocation reads and patches
ResourceOf(i) ==
    IF tool[i] = "manage_work_item_relations" THEN args[i].source_id ELSE args[i].id

\* the patches of slot i that the service applied
AppliedOf(i) == SelectSeq(wire, LAMBDA c : c.slot = i /\ c.api = "UpdateWorkItem" /\ c.ok)

\* C9 as stated, in what it says of removals: when the concurrent invocations are
\* of different tools or on different work items, every patch of an invocation
\* that reaches the service is accepted, and a patch that removes a relation or an
\* attachment removes the entry the invocation matched in its own read, as it
\* would running alone.
C9_DifferentToolsOrResourcesDoNotInteract ==
    \A i \in Slots :
        (/\ pc[i] # "idle"
         /\ \A j \in Slots \ {i} :
               pc[j] # "idle" => (tool[j] # tool[i] \/ ResourceOf(j) # ResourceOf(i)))
        => \A k \in 1..Len(wire) :
              (wire[k].slot = i /\ wire[k].api = "UpdateWorkItem" /\ ~wire[k].fault)
              => /\ wire[k].ok
                 /\ wire[k].body[1].op = "remove"
                       => items[wire[k].id][wire[k].rev].relations[wire[k].body[1].path.index + 1]
                            = loc[i].got.list[wire[k].body[1].path.index + 1]

\* C9 amended: concurrent invocations on different work items do not interact.
\* Every remote call of an invocation is addressed to its own work item and is
\* served on that work item as it was at the start; a patch that reaches the
\* service is accepted; the work item ends as the invocation's own patch makes it
\* from its state at the start, or unchanged; and the result is Ok exactly when
\* that patch was applied.
C9_DifferentWorkItemsDoNotInteract ==
    \A i \in Slots :
        (/\ pc[i] # "idle"
         /\ \A j \in Slots \ {i} : pc[j] # "idle" => ResourceOf(j) # ResourceOf(i))
        => LET w == ResourceOf(i)
               calls == CallsOf(i)
               applied == AppliedOf(i)
           IN  /\ \A k \in 1..Len(calls) :
                     /\ calls[k].id = w
                     /\ calls[k].rev = 1
                     /\ (calls[k].api = "UpdateWorkItem" /\ ~calls[k].fault) => calls[k].ok
               /\ Len(applied) <= 1
               /\ Len(items[w]) = 1 + Len(applied)
               /\ Len(applied) = 1 => items[w][2] = ApplyPatch(items[w][1], loc[i].doc).item
               /\ pc[i] = "done" => (result[i].kind = "ok" <=> Len(applied) = 1)

\* a relation removal and an attachment removal on different work items, both
\* of which read before either patched, and both of which succeeded
C9_InterleavedOnDifferentWorkItems ==
    \E i, j \in Slots :
        /\ tool[i] = "manage_work_item_relations" /\ args[i].operation = "remove"
        /\ tool[j] = "remove_work_item_attachment"
        /\ ResourceOf(i) # ResourceOf(j)
        /\ pc[i] = "done" /\ pc[j] = "done"
        /\ result[i].kind = "ok" /\ result[j].kind = "ok"
        /\ Len(wire) = 4
        /\ wire[1].api = "GetWorkItem" /\ wire[2].api = "GetWorkItem"
        /\ wire[1].slot # wire[2].slot

\* C16: main constructs the clients, registers the tools and accepts invocations
\* only if the organization, the token and the project of the environment are all
\* non-empty; if one of them is empty, main aborts right after loading them.
C16_StartupRequiresAllSettings ==
    LET complete == env.org # <<>> /\ env.pat # <<>> /\ env.project # <<>>
    IN  /\ (phase \in {"clients", "serving"} \/ \E i \in Slots : pc[i] # "idle") => complete
        /\ (phase # "start" /\ ~complete) => phase = "fatal"

C14_CreatedTextComesFromResponse ==
    \A i \in Slots :
        (tool[i] = "create_work_item" /\ pc[i] = "done" /\ result[i].kind = "ok")
        => /\ Len(result[i].lines) = 1
           /\ result[i].lines[1].msg = "Created work item #%d: %s"
           /\ result[i].lines[1].id = loc[i].resp.id
           /\ loc[i].resp.hasTitle => result[i].lines[1].arg = <<loc[i].resp.title>>
           /\ (loc[i].resp.id = 42 /\ loc[i].resp.hasTitle /\ loc[i].resp.title = "Login fails")
                 => result[i].lines[1] = Line("Created work item #%d: %s", 42, <<"Login fails">>)

\* a create succeeded whose response carries another title than the request
C14_ResponseTitleDiffers ==
    \E i \in Slots :
        /\ tool[i] = "create_work_item"
        /\ pc[i] = "done" /\ result[i].kind = "ok"
        /\ loc[i].resp.hasTitle
        /\ loc[i].resp.title # args[i].title
        /\ args[i].title = "Login fails"

\* C19: batch_create_work_items given N items issues one create per item, in the
\* order of the input and whatever became of the earlier ones, N creates in all;
\* the result is always a text result with N entries in the order of the input,
\* entry k telling whether item k was created or failed.
C19_BatchCreateTriesEveryItem ==
    \A i \in Slots :
        (/\ tool[i] = "batch_create_work_items"
         /\ pc[i] = "done"
         /\ args[i].absent = {} /\ args[i].mistyped = {}
         /\ args[i].items.json = "array")
        => LET list == args[i].items.items
               calls == CallsOf(i)
           IN  /\ Len(calls) = Len(list)
               /\ result[i].kind = "ok"
               /\ Len(result[i].lines) = Len(list)
               /\ \A k \in 1..Len(list) :
                     /\ k <= Len(calls) =>
                           /\ calls[k].api = "CreateWorkItem"
                           /\ calls[k].body[1].value = list[k].title
                           /\ calls[k].body[2].value = list[k].description
                     /\ (k <= Len(calls) /\ k <= Len(result[i].lines)) =>
                           /\ result[i].lines[k].arg = <<list[k].title>>
                           /\ result[i].lines[k].msg =
                                 (IF calls[k].ok THEN "Created work item #%d: %s"
                                                 ELSE "Failed to create '%s': %v")

\* a batch of three finished in which the first create failed and the later two
\* went through
C19_FailureThenTwoCreated ==
    \E i \in Slots :
        /\ tool[i] = "batch_create_work_items"
        /\ pc[i] = "done" /\ result[i].kind = "ok"
        /\ Len(CallsOf(i)) = 3
        /\ ~CallsOf(i)[1].ok /\ CallsOf(i)[2].ok /\ CallsOf(i)[3].ok
        /\ args[i].items.items[1].title # args[i].items.items[2].title

\* the 0-based positions of the fetched relations that slot i's request names
C20_Matching(i) ==
    {k \in 0..(Len(loc[i].got.list) - 1) :
        /\ loc[i].got.list[k + 1].rel = RelationTypeMap(args[i].relation_type)
        /\ loc[i].got.list[k + 1].url = WorkItemUrl(args[i].target_id)}

\* C20: a relations remove whose fetched relation list holds at least one entry
\* of the requested type and target issues exactly one update, whose Patch
\* document is the single operation remove at /relations/<i>, i being the
\* smallest 0-based position of such an entry.
C20_RemoveTargetsFirstMatch ==
    \A i \in Slots :
        (/\ tool[i] = "manage_work_item_relations"
         /\ args[i].absent = {} /\ args[i].mistyped = {}
         /\ args[i].operation = "remove"
         /\ loc[i].got.fetched /\ ~loc[i].got.isNil
         /\ C20_Matching(i) # {})
        => LET first == CHOOSE k \in C20_Matching(i) : \A o \in C20_Matching(i) : k <= o
               updates == SelectSeq(CallsOf(i), LAMBDA c : c.api = "UpdateWorkItem")
           IN  /\ pc[i] \in {"UpdateWorkItem", "done"}
               /\ loc[i].doc = <<[op |-> "remove",
                                  path |-> [root |-> "relations", name |-> "", index |-> first],
                                  value |-> NoValue]>>
               /\ Len(updates) = (IF pc[i] = "done" THEN 1 ELSE 0)
               /\ \A k \in 1..Len(updates) :
                     updates[k].body = loc[i].doc /\ updates[k].id = args[i].source_id

\* a remove went out for a relation list that held the requested relation twice
C20_RemovedFirstOfTwo ==
    \E i \in Slots :
        /\ tool[i] = "manage_work_item_relations"
        /\ args[i].absent = {} /\ args[i].mistyped = {}
        /\ args[i].operation = "remove"
        /\ pc[i] = "done" /\ result[i].kind = "ok"
        /\ loc[i].got.fetched /\ ~loc[i].got.isNil
        /\ Cardinality(C20_Matching(i)) >= 2

\* the tools that talk to the service over net/http and judge the status themselves
HttpTools ==
    {"get_available_wikis", "get_wiki_page", "list_wiki_pages", "search_wiki",
     "get_current_sprint", "get_sprints"}

\* C15: an HTTP operation (listing the wikis, getting, listing or searching wiki
\* pages, fetching iterations) that received a response ends in an Error
\* embedding the numeric status exactly when the status is outside 200..299;
\* with any 2xx status the response is treated as a success.
C15_StatusErrorExactlyWhenNon2xx ==
    \A i \in Slots :
        (/\ tool[i] \in HttpTools
         /\ pc[i] = "done"
         /\ Len(CallsOf(i)) > 0
         /\ CallsOf(i)[Len(CallsOf(i))].status # 0)
        => LET status == CallsOf(i)[Len(CallsOf(i))].status
           IN  (result[i].kind = "error" /\ result[i].lines[1].id = status)
               <=> ~(status >= 200 /\ status <= 299)

\* the tools that pick a wiki out of the project's wikis
WikiSelectingTools == {"manage_wiki_page", "get_wiki_page", "list_wiki_pages", "search_wiki"}

\* slot i has fetched a non-empty wiki list and made its choice
C17_Selected(i) ==
    /\ tool[i] \in WikiSelectingTools
    /\ loc[i].wikis.fetched
    /\ Len(loc[i].wikis.list) > 0

ReadTools ==
    {"query_work_items", "get_related_work_items", "get_work_item_attachments",
     "get_work_item_tags", "get_work_item_templates", "get_current_sprint", "get_sprints",
     "get_available_wikis", "list_wiki_pages", "get_wiki_page", "search_wiki"}

\* the last lookup slot i made was served and what it returned holds nothing
\* of what the tool was asked for
EmptyCollectionReturned(i) ==
    /\ Len(CallsOf(i)) > 0
    /\ CallsOf(i)[Len(CallsOf(i))].ok
    /\ CASE tool[i] = "query_work_items" ->
              /\ CallsOf(i)[Len(CallsOf(i))].api = "QueryByWiql"
              /\ CallsOf(i)[Len(CallsOf(i))].body = <<>>
         [] tool[i] = "get_related_work_items" ->
              /\ CallsOf(i)[Len(CallsOf(i))].api = "GetWorkItem"
              /\ loc[i].got.fetched /\ loc[i].ids = <<>>
         [] tool[i] = "get_work_item_attachments" ->
              /\ loc[i].got.fetched
              /\ \A k \in 1..Len(loc[i].got.list) : loc[i].got.list[k].rel # "AttachedFile"
         [] tool[i] = "get_work_item_tags" -> loc[i].read = <<>>
         [] tool[i] \in {"get_work_item_templates", "get_current_sprint", "get_sprints"} ->
              loc[i].got.fetched /\ loc[i].got.list = <<>>
         [] tool[i] = "get_available_wikis" ->
              loc[i].wikis.fetched /\ loc[i].wikis.list = <<>>
         [] tool[i] \in {"list_wiki_pages", "get_wiki_page", "search_wiki"} ->
              \/ loc[i].wikis.fetched /\ loc[i].wikis.list = <<>>
              \/ loc[i].got.fetched /\ loc[i].got.list = <<>>
         [] OTHER -> FALSE

\* C18: a read tool (query_work_items, get_related_work_items,
\* get_work_item_attachments, get_work_item_tags, get_work_item_templates,
\* get_current_sprint, get_sprints, get_available_wikis, list_wiki_pages,
\* get_wiki_page, search_wiki) to which the service returned an empty
\* collection ends in an Ok text result, not in an Error.
C18_EmptyCollectionIsOk ==
    \A i \in Slots :
        (tool[i] \in ReadTools /\ pc[i] = "done" /\ EmptyCollectionReturned(i))
        => result[i].kind = "ok"

\* C11: as long as its remote calls return, every invocation eventually ends in
\* exactly one outcome, a text result or an error result; once it has ended its
\* result does not change and it issues no further remote call.
C11_EveryInvocationYieldsOneResult ==
    /\ \A i \in Slots :
          (pc[i] = "invoked") ~> (pc[i] = "done" /\ result[i].kind \in {"ok", "error"})
    /\ [][\A i \in Slots :
            pc[i] = "done" => /\ pc'[i] = "done"
                              /\ result'[i] = result[i]
                              /\ Len(SelectSeq(wire', LAMBDA c : c.slot = i)) = Len(CallsOf(i))]_vars

BatchTools == {"batch_create_work_items", "batch_update_work_items"}

\* no remote step of slot i was issued twice, and a failed call is its last
C12_NoRetryNoCallAfterFailure(i) ==
    LET calls == CallsOf(i)
    IN  /\ \A k, l \in 1..Len(calls) : k < l => calls[k].api # calls[l].api
        /\ \A k \in 1..Len(calls) : ~calls[k].ok => (k = Len(calls) /\ pc[i] = "done")

\* slot i's last remote call failed
C12_LastCallFailed(i) == Len(CallsOf(i)) > 0 /\ ~CallsOf(i)[Len(CallsOf(i))].ok

\* C12 as stated: within one invocation of a tool other than the batch tools no
\* remote step is issued twice, a remote call that fails is the last one the
\* invocation issues, and the invocation ends with that failure as its one
\* error result.
C12_EveryFailureIsTheResult ==
    \A i \in Slots :
        (tool[i] # "" /\ tool[i] \notin BatchTools)
        => /\ C12_NoRetryNoCallAfterFailure(i)
           /\ C12_LastCallFailed(i) =>
                 result[i].kind = "error" /\ Len(result[i].lines) = 1

\* C12, amended: within one invocation of a tool other than the batch tools no
\* remote step is issued twice and a remote call that fails is the last one the
\* invocation issues; the invocation ends with that failure as its one error
\* result, except that query_work_items answers a failed fetch of the details
\* with a text result that lists the bare ids of the query result.
C12_EveryFailureEndsTheInvocation ==
    \A i \in Slots :
        (tool[i] # "" /\ tool[i] \notin BatchTools)
        => /\ C12_NoRetryNoCallAfterFailure(i)
           /\ C12_LastCallFailed(i) =>
                 IF tool[i] = "query_work_items" /\ CallsOf(i)[Len(CallsOf(i))].api = "GetWorkItems"
                 THEN /\ result[i].kind = "ok"
                      /\ \E k \in 1..Len(result[i].lines) : result[i].lines[k].msg = "ID: %d"
                 ELSE result[i].kind = "error" /\ Len(result[i].lines) = 1

\* an invocation whose first remote call was served and whose second one failed
\* has ended with an error result
C12_SecondCallFailed ==
    \E i \in Slots :
        /\ tool[i] \notin BatchTools
        /\ Len(CallsOf(i)) = 2
        /\ CallsOf(i)[1].ok /\ ~CallsOf(i)[2].ok
        /\ pc[i] = "done" /\ result[i].kind = "error"

\* the 0-based positions of the fetched relations of type AttachedFile whose URL
\* holds slot i's attachment id
C21_Matching(i) ==
    {k \in 0..(Len(loc[i].got.list) - 1) :
        /\ loc[i].got.list[k + 1].rel = "AttachedFile"
        /\ Contains(loc[i].got.list[k + 1].url, args[i].attachment_id)}

\* C21: remove_work_item_attachment patches /relations/<i> with one remove, i
\* being the smallest 0-based position of a fetched relation of type
\* AttachedFile whose URL contains the attachment id; if no fetched relation is
\* such, the result is an Error and no Patch is issued.
C21_RemovesFirstMatchingAttachment ==
    \A i \in Slots :
        (/\ tool[i] = "remove_work_item_attachment"
         /\ args[i].absent = {} /\ args[i].mistyped = {}
         /\ loc[i].got.fetched)
        => LET updates == SelectSeq(CallsOf(i), LAMBDA c : c.api = "UpdateWorkItem")
           IN  IF loc[i].got.isNil \/ C21_Matching(i) = {}
               THEN /\ pc[i] = "done" /\ result[i].kind = "error"
                    /\ Len(updates) = 0
               ELSE LET first == CHOOSE k \in C21_Matching(i) : \A o \in C21_Matching(i) : k <= o
                    IN  /\ pc[i] \in {"UpdateWorkItem", "done"}
                        /\ Len(updates) = (IF pc[i] = "done" THEN 1 ELSE 0)
                        /\ \A k \in 1..Len(updates) :
                              /\ updates[k].id = args[i].id
                              /\ updates[k].body =
                                    <<[op |-> "remove",
                                       path |-> [root |-> "relations", name |-> "", index |-> first],
                                       value |-> NoValue]>>

\* an attachment was removed whose URL only contains the id, while a later
\* attachment's URL contains it too
C21_RemovedFirstOfTwoAttachments ==
    \E i \in Slots :
        /\ tool[i] = "remove_work_item_attachment"
        /\ args[i].absent = {} /\ args[i].mistyped = {}
        /\ pc[i] = "done" /\ result[i].kind = "ok"
        /\ Cardinality(C21_Matching(i)) = 2
        /\ \E k \in C21_Matching(i) : loc[i].got.list[k + 1].url # args[i].attachment_id

\* nothing matched, among relations that hold attachments
C21_NoAttachmentMatched ==
    \E i \in Slots :
        /\ tool[i] = "remove_work_item_attachment"
        /\ args[i].absent = {} /\ args[i].mistyped = {}
        /\ loc[i].got.fetched /\ ~loc[i].got.isNil
        /\ C21_Matching(i) = {}
        /\ pc[i] = "done"

\* the overrides slot i's caller supplied, as field and value pairs
C22_Overrides(i) ==
    IF args[i].field_values.json = "object" THEN args[i].field_values.fields ELSE {}

\* C22: the Patch document of create_from_template holds one add per default
\* of the template followed by one add per override of the caller, every
\* override after every default, so that for a field the caller overrides the
\* last operation on its path carries the caller's value.
C22_OverridesFollowDefaults ==
    \A i \in Slots :
        (/\ tool[i] = "create_from_template"
         /\ pc[i] \in {"CreateWorkItem", "done"}
         /\ Len(CallsOf(i)) > 0 /\ CallsOf(i)[1].ok)
        => LET doc == loc[i].doc
               n == Cardinality(TemplateFields)
               creates == SelectSeq(CallsOf(i), LAMBDA c : c.api = "CreateWorkItem")
           IN  /\ Len(doc) = n + Cardinality(C22_Overrides(i))
               /\ \A k \in 1..Len(doc) : doc[k].op = "add" /\ doc[k].path.root = "fields"
               /\ {<<doc[k].path.name, doc[k].value>> : k \in 1..n} = TemplateFields
               /\ {<<doc[k].path.name, doc[k].value>> : k \in (n + 1)..Len(doc)} = C22_Overrides(i)
               /\ \A o \in C22_Overrides(i) :
                     LET on == {k \in 1..Len(doc) : doc[k].path.name = o[1]}
                         last == CHOOSE k \in on : \A l \in on : l <= k
                     IN  doc[last].value = o[2]
               /\ \A k \in 1..Len(creates) : creates[k].body = doc

\* a work item was created from a template whose title the caller overrode
C22_TitleOverridden ==
    \E i \in Slots :
        /\ tool[i] = "create_from_template"
        /\ pc[i] = "done" /\ result[i].kind = "ok"
        /\ <<"System.Title", "Override">> \in C22_Overrides(i)
        /\ \E t \in TemplateFields : t[1] = "System.Title" /\ t[2] # "Override"
        /\ Len(CallsOf(i)) = 2 /\ Len(CallsOf(i)[2].body) = 4

\* the positions of the wikis slot i fetched that satisfy the name rule of its tool
C23_RuleMatches(i) ==
    LET wikis == loc[i].wikis.list
    IN  IF tool[i] = "get_wiki_page"
        THEN {k \in 1..Len(wikis) :
                \/ Contains(ToLower(wikis[k].Name), ToLower(RemoveSpaces(config.Project)))
                \/ Contains(ToLower(wikis[k].Name),
                            <<"d", "o", "c", "u", "m", "e", "n", "t", "a", "t", "i", "o", "n">>)}
        ELSE {k \in 1..Len(wikis) : Contains(wikis[k].Name, config.Project)}

\* C23: a wiki tool that fetched a non-empty wiki list selects the first wiki of
\* the list that satisfies its name rule, or the first wiki of the list when
\* none does, and asks for pages of that wiki only; the rule is "the name
\* contains the project name" for manage_wiki_page, list_wiki_pages and
\* search_wiki, and "the lower-cased name contains the lower-cased project name
\* without its spaces, or contains documentation" for get_wiki_page.  With an
\* empty wiki list the tool ends in an Error and issues no page request.
C23_FirstMatchingWikiElseFirst ==
    \A i \in Slots :
        (tool[i] \in WikiSelectingTools /\ loc[i].wikis.fetched)
        => LET wikis == loc[i].wikis.list
               later == SelectSeq(CallsOf(i), LAMBDA c : c.api # "GET wikis")
           IN  IF Len(wikis) = 0
               THEN pc[i] = "done" /\ result[i].kind = "error" /\ Len(later) = 0
               ELSE LET matches == C23_RuleMatches(i)
                        pick == IF matches = {} THEN 1
                                ELSE CHOOSE k \in matches : \A o \in matches : k <= o
                    IN  /\ loc[i].wikiId = wikis[pick].Id
                        /\ \A k \in 1..Len(later) : later[k].body[1].wikiId = wikis[pick].Id

\* get_wiki_page, for a project whose name holds a space, asked for a page of a
\* wiki that is not the first of the list and that only the lower-cased,
\* space-stripped name matches
C23_LooseRuleChoseLaterWiki ==
    \E i \in Slots :
        /\ tool[i] = "get_wiki_page"
        /\ loc[i].wikis.fetched /\ Len(loc[i].wikis.list) > 1
        /\ \E c \in 1..Len(config.Project) : config.Project[c] = " "
        /\ loc[i].wikiId # loc[i].wikis.list[1].Id
        /\ \A k \in 1..Len(loc[i].wikis.list) :
              ~Contains(ToLower(loc[i].wikis.list[k].Name),
                        <<"d", "o", "c", "u", "m", "e", "n", "t", "a", "t", "i", "o", "n">>)
        /\ pc[i] = "done" /\ Len(CallsOf(i)) = 2

\* C24: when query_work_items found work items and the detail fetch failed or
\* returned nothing, the invocation still ends Ok: its text is the summary line
\* with the true total, the empty line, and then the bare id of every matching
\* work item in result order, and GetWorkItems was its last remote call; when
\* the query found nothing, no detail fetch was issued at all.
C24_FallbackListsEveryId ==
    \A i \in Slots :
        (tool[i] = "query_work_items" /\ pc[i] = "done")
        => LET calls == CallsOf(i)
           IN  /\ (Len(calls) >= 2 /\ calls[2].api = "GetWorkItems"
                     /\ (calls[2].fault \/ loc[i].got.isNil \/ Len(loc[i].got.list) = 0))
                  => LET refs == calls[1].body
                     IN  /\ Len(refs) > 0
                         /\ Len(calls) = 2
                         /\ result[i].kind = "ok"
                         /\ Len(result[i].lines) = 2 + Len(refs)
                         /\ result[i].lines[1].msg =
                                "Found %d work items. Showing details for the first %d:"
                         /\ result[i].lines[1].id = Len(refs)
                         /\ \A k \in 1..Len(refs) :
                               /\ result[i].lines[2 + k].msg = "ID: %d"
                               /\ result[i].lines[2 + k].id = refs[k]
               /\ (Len(calls) >= 1 /\ calls[1].api = "QueryByWiql" /\ calls[1].ok
                     /\ Len(calls[1].body) = 0)
                  => Len(calls) = 1

\* a query matched more work items than details are asked for, the detail
\* fetch failed, and the invocation ended Ok
C24_DetailFetchFailedOverCap ==
    \E i \in Slots :
        /\ tool[i] = "query_work_items" /\ pc[i] = "done" /\ result[i].kind = "ok"
        /\ Len(CallsOf(i)) = 2 /\ CallsOf(i)[2].fault
        /\ Len(CallsOf(i)[1].body) > Len(CallsOf(i)[2].body)

\* C25: add_work_item_attachment decodes, uploads and patches in that order,
\* each step only after the one before succeeded: its remote calls are a prefix
\* of <<CreateAttachment, UpdateWorkItem>> and none is issued for content that
\* does not decode; the Patch follows a successful upload and is one add at
\* /relations/- of an AttachedFile relation with the URL that upload returned
\* and the file name given; the result is Ok only when both calls succeeded;
\* and a failed Patch ends the invocation in an Error with no further call.
C25_DecodeUploadPatchInOrder ==
    \A i \in Slots :
        tool[i] = "add_work_item_attachment"
        => LET calls == CallsOf(i)
           IN  /\ Len(calls) <= 2
               /\ Len(calls) >= 1
                  => /\ calls[1].api = "CreateAttachment"
                     /\ Base64Ok(args[i].content)
                     /\ calls[1].body.fileName = args[i].file_name
               /\ Len(calls) = 2
                  => /\ calls[1].ok
                     /\ calls[2].api = "UpdateWorkItem" /\ calls[2].id = args[i].id
                     /\ Len(calls[2].body) = 1
                     /\ calls[2].body[1].op = "add"
                     /\ calls[2].body[1].path = [root |-> "relations", name |-> "-", index |-> 0]
                     /\ calls[2].body[1].value =
                            [rel |-> "AttachedFile", url |-> calls[1].body.url,
                             name |-> args[i].file_name]
                     /\ pc[i] = "done"
                     /\ ~calls[2].ok => result[i].kind = "error"
               /\ (pc[i] = "done" /\ result[i].kind = "ok")
                  => Len(calls) = 2 /\ calls[1].ok /\ calls[2].ok

\* an upload that returned the second URL was followed by a Patch the service
\* refused, and the invocation ended in an Error
C25_PatchFailedAfterUpload ==
    \E i \in Slots :
        /\ tool[i] = "add_work_item_attachment" /\ pc[i] = "done"
        /\ Len(CallsOf(i)) = 2
        /\ CallsOf(i)[1].ok /\ CallsOf(i)[1].body.url = <<"f", "8">>
        /\ ~CallsOf(i)[2].ok /\ result[i].kind = "error"

\* C26: two invocations of get_current_sprint, or two of get_sprints, whose
\* arguments differ only in a non-empty team value issue iteration requests
\* that differ: each asks for the iterations of the team it names.
C26_TeamScopesIterationRequest ==
    \A i, j \in Slots :
        (/\ i # j
         /\ tool[i] = tool[j] /\ tool[i] \in {"get_current_sprint", "get_sprints"}
         /\ Holds(args[i], "team") /\ Holds(args[j], "team")
         /\ args[i].team # <<>> /\ args[j].team # <<>>
         /\ args[i].team # args[j].team
         /\ [args[i] EXCEPT !.team = args[j].team] = args[j]
         /\ Len(CallsOf(i)) = 1 /\ Len(CallsOf(j)) = 1)
        => CallsOf(i)[1].body # CallsOf(j)[1].body

\* the tags slot i named: the elements of its comma-separated tags argument
C27_Named(i) == TagKeys(Split(args[i].tags, <<",">>))

\* C27: once two manage_work_item_tags add invocations on the same work item,
\* naming distinct tags, have both returned Ok, the work item carries the tags
\* of both, however their GetWorkItem and UpdateWorkItem calls interleaved.
C27_BothAddedTagsPresent ==
    \A i, j \in Slots :
        (/\ i # j
         /\ tool[i] = "manage_work_item_tags" /\ tool[j] = "manage_work_item_tags"
         /\ args[i].operation = "add" /\ args[j].operation = "add"
         /\ args[i].id = args[j].id
         /\ C27_Named(i) \cap C27_Named(j) = {}
         /\ \A t \in C27_Named(i) \cup C27_Named(j) : t # <<>> /\ ~Contains(t, <<";">>)
         /\ pc[i] = "done" /\ result[i].kind = "ok"
         /\ pc[j] = "done" /\ result[j].kind = "ok")
        => (C27_Named(i) \cup C27_Named(j)) \subseteq TagKeys(CurrentTags(Current(args[i].id)))

\* the tags of the tag string slot i wrote back
C28_Written(i) ==
    LET value == CallsOf(i)[2].body[1].value
    IN  IF value = <<>> THEN {} ELSE TagKeys(Split(value, <<";", " ">>))

\* C28: whatever its operation and tags arguments, manage_work_item_tags writes
\* back every tag the work item had when it was read that the tags argument
\* does not name, and a remove writes no tag the work item did not have.
C28_UnnamedTagsAreKept ==
    \A i \in Slots :
        (tool[i] = "manage_work_item_tags" /\ Len(CallsOf(i)) = 2)
        => LET before == TagKeys(loc[i].read)
               named == TagKeys(Split(args[i].tags, <<",">>))
           IN  /\ (before \ named) \subseteq C28_Written(i)
               /\ args[i].operation = "remove" => C28_Written(i) \subseteq before

\* slot i added a relation and returned Ok, and slot j then asked to remove
\* the relation of the same type and target from the same work item: every
\* call of i was served before any call of j, no other call was served, and
\* the service failed none of j's calls
C29_AddThenRemove(i, j) ==
    /\ i # j
    /\ tool[i] = "manage_work_item_relations" /\ tool[j] = "manage_work_item_relations"
    /\ args[i].operation = "add" /\ args[j].operation = "remove"
    /\ args[i].relation_type \in {"parent", "child", "related"}
    /\ args[i].relation_type = args[j].relation_type
    /\ args[i].source_id = args[j].source_id /\ args[i].target_id = args[j].target_id
    /\ pc[i] = "done" /\ result[i].kind = "ok"
    /\ pc[j] = "done"
    /\ Len(wire) >= 2 /\ wire[1].slot = i
    /\ \A k \in 2..Len(wire) : wire[k].slot = j /\ ~wire[k].fault

\* C29: a successful manage_work_item_relations add followed, with no other
\* actor in between, by a remove of the same relation type and target finds
\* the relation in the work item the remove fetched, returns Ok, and leaves
\* the relation list of the work item as it was before the add.
C29_RemoveUndoesAdd ==
    \A i, j \in Slots :
        C29_AddThenRemove(i, j)
        => /\ ~loc[j].got.isNil
           /\ RelationMatches(loc[j].got.list, RelationTypeMap(args[j].relation_type),
                              args[j].target_id) # {}
           /\ result[j].kind = "ok"
           /\ Current(args[i].source_id).relations = items[args[i].source_id][1].relations

\* the relation type slot i works with, by the table of the claim
C30_Image(i) ==
    IF args[i].relation_type = "parent" THEN "System.LinkTypes.Hierarchy-Reverse"
    ELSE IF args[i].relation_type = "child" THEN "System.LinkTypes.Hierarchy-Forward"
    ELSE IF args[i].relation_type = "related" THEN "System.LinkTypes.Related"
    ELSE ""

\* C30: manage_work_item_relations sends an add at /relations/- only when
\* operation is exactly "add", and then as its only remote call, with no read
\* before it; for every other operation value it first fetches the work item
\* and then sends at most one Patch, a single remove at the index of a relation
\* of the fetched list.  The relation type appended, or looked for, is the
\* image of relation_type under parent -> Hierarchy-Reverse, child ->
\* Hierarchy-Forward, related -> Related, and the empty string for any other
\* relation_type.
C30_AppendOnlyForAdd ==
    \A i \in Slots :
        tool[i] = "manage_work_item_relations"
        => LET calls == CallsOf(i)
           IN  /\ Len(calls) <= 2
               /\ (Len(calls) >= 1 /\ args[i].operation = "add")
                  => /\ Len(calls) = 1
                     /\ calls[1].api = "UpdateWorkItem"
                     /\ Len(calls[1].body) = 1
                     /\ calls[1].body[1].op = "add"
                     /\ calls[1].body[1].path = [root |-> "relations", name |-> "-", index |-> 0]
                     /\ calls[1].body[1].value.rel = C30_Image(i)
                     /\ calls[1].body[1].value.url = WorkItemUrl(args[i].target_id)
               /\ (Len(calls) >= 1 /\ args[i].operation # "add")
                  => /\ calls[1].api = "GetWorkItem"
                     /\ Len(calls) = 2
                        => /\ calls[2].api = "UpdateWorkItem"
                           /\ Len(calls[2].body) = 1
                           /\ calls[2].body[1].op = "remove"
                           /\ calls[2].body[1].path.root = "relations"
                           /\ calls[2].body[1].path.name = ""
                           /\ LET k == calls[2].body[1].path.index
                              IN  /\ k \in 0..(Len(loc[i].got.list) - 1)
                                  /\ loc[i].got.list[k + 1].rel = C30_Image(i)
                                  /\ loc[i].got.list[k + 1].url = WorkItemUrl(args[i].target_id)

\* an operation that is neither add nor remove fetched the work item and
\* removed a relation from it
C30_OtherOperationRemoved ==
    \E i \in Slots :
        /\ tool[i] = "manage_work_item_relations"
        /\ args[i].operation \notin {"add", "remove"}
        /\ Len(CallsOf(i)) = 2 /\ CallsOf(i)[2].ok
        /\ pc[i] = "done" /\ result[i].kind = "ok"

\* an add for a relation_type outside the table appended a relation whose
\* type is the empty string
C30_UnknownTypeAppended ==
    \E i \in Slots :
        /\ tool[i] = "manage_work_item_relations"
        /\ args[i].operation = "add"
        /\ args[i].relation_type \notin {"parent", "child", "related"}
        /\ Len(CallsOf(i)) = 1 /\ CallsOf(i)[1].body[1].value.rel = ""

====
